---- MODULE Spec2Model ----
(***************************************************************************)
(* A model of the attribute/descriptor framework of                        *)
(* descarteslabs/catalog/attributes.py: Attribute, MappingAttribute and    *)
(* ListAttribute, the owner registries of nested values and the            *)
(* modification notices they send to the owning model objects; and of XYZ  *)
(* and XYZErrorListener of descarteslabs/workflows/models/xyz.py.          *)
(*                                                                         *)
(* Every Python value is a pair <<tag, n>>:                                *)
(*   <<"unset",0>>  key absent from an _attributes dict                    *)
(*   <<"none",0>>   None                                                   *)
(*   <<"v",k>>      a plain scalar value                                   *)
(*   <<"o",k>>      a model object (owner) k                               *)
(*   <<"m",k>>      the k-th constructed MappingAttribute (File) instance  *)
(*   <<"l",k>>      the k-th constructed ListAttribute instance            *)
(*   <<"d",k>>      a plain dict {"href": <<"v",k>>}                       *)
(*   <<"bad",0>>    a value no deserializer accepts (neither dict nor list)*)
(*   <<"c",k>>      catalog object k, a value of a CatalogObjectReference  *)
(*   <<"e",k>>      the k-th member of the enum of an EnumAttribute, whose  *)
(*                  string value is <<"v",k>>                               *)
(* A datetime is <<"dt", t, us, tz>>: the second t, the microsecond us and *)
(* tz "naive" or "utc". A timestamp string is <<"s", t, ns, suffix,        *)
(* digits>>: the second t written as YYYY-MM-DDTHH:MM:SS, a fraction of    *)
(* `digits` digits (none when 0) worth ns nanoseconds, and the suffix "Z", *)
(* "+00:00" or "" ; <<"s", 0, 0, "garbage", 0>> is a string of another     *)
(* shape.                                                                  *)
(* Where the class, the identity and every attribute of a mapping matter,  *)
(* an instance is <<"inst", cls, id, a, owners>> with a its _attributes    *)
(* dict (a function on the names that are set), a plain dict is            *)
(* <<"dict", a>>, a plain list <<"plain", items>>, a ListAttribute         *)
(* <<"lattr", id, items>>, and True and False are <<"bool",1>> and         *)
(* <<"bool",0>>.                                                           *)
(***************************************************************************)
EXTENDS Integers, Sequences, FiniteSets, TLC

VARIABLES
    attrs,      \* attrs[o][f]: the _attributes dict of model object o
    mcount,     \* number of MappingAttribute instances constructed so far
    mattrs,     \* mattrs[k][fld]: the _attributes dict of mapping instance k
    mowners,    \* mowners[k]: the _model_objects dict of mapping instance k
    lcount,     \* number of ListAttribute instances constructed so far
    litems,     \* litems[k]: the _items list of list instance k
    lowners,    \* lowners[k]: the _model_objects dict of list instance k
    lflags,     \* lflags[k]: the _mutable / _readonly flags of list instance k
    last,       \* the operation performed by the last step
    result,     \* how it ended: "ok" or the exception it raised
    calls,      \* the owners' _set_modified invocations it made, in order
    xyz,        \* the _message of an XYZ object
    listener,   \* the XYZErrorListener of that object and its thread
    life        \* its listen() and stop() calls and the threads left behind

vars == <<attrs, mcount, mattrs, mowners, lcount, litems, lowners, lflags,
          last, result, calls, xyz, listener, life>>

\* ---------------------------------------------------------------- bounds

MaxMappings == 2
MaxLists == 1
MaxLen == 3
MaxCallbacks == 2
MaxMessages == 2
MaxListens == 2

\* ---------------------------------------------------------------- values

Unset == <<"unset", 0>>
None == <<"none", 0>>
Bad == <<"bad", 0>>
V(k) == <<"v", k>>
O(k) == <<"o", k>>
M(k) == <<"m", k>>
L(k) == <<"l", k>>
D(k) == <<"d", k>>

Vals == {V(1), V(2)}
Owners == {O(1), O(2)}
MapIds == 1..MaxMappings
ListIds == 1..MaxLists

IsMapping(x) == x[1] = "m"
IsList(x) == x[1] = "l"
IsDict(x) == x[1] = "d"

\* The catalog objects a reference can be given or can fetch. Objects 1, 2
\* and 3 are Product instances held by the caller (3 is UNSAVED), object 4
\* is an instance of another class, objects 5 and 6 are what a lookup of id
\* 1 and of id 2 returns.
C(k) == <<"c", k>>
IsObject(x) == x[1] = "c"
CatalogObjects == {C(k) : k \in 1..6}
RefId(x) == IF x[2] \in {1, 3, 5} THEN V(1) ELSE V(2)
RefState(x) == IF x[2] = 3 THEN "unsaved" ELSE "saved"
IsReferenceClass(x) == IsObject(x) /\ x[2] # 4
Fetched(id) == C(4 + id[2])

\* ---------------------------------------------------------------- schema

\* The attributes declared on the model class, with the flags given to
\* Attribute.__init__.
AttrFields == {"ro", "imm", "plain"}
MapFields == {"field", "field2", "fixed"}
ListFields == {"files", "frozen"}
\* ref = CatalogObjectReference(Product), uref = CatalogObjectReference(
\* Product, allow_unsaved=True), each with its shadow id attribute; ref_id is
\* declared Attribute(mutable=False).
\* unit = EnumAttribute(ResolutionUnit).
EnumFields == {"unit"}
RefFields == {"ref", "uref"}
IdFields == {"ref_id", "uref_id"}
Fields == AttrFields \cup MapFields \cup ListFields \cup RefFields
            \cup IdFields \cup EnumFields

Schema ==
    [f \in Fields |->
        [mutable  |-> f \notin {"imm", "fixed", "frozen", "ref_id"},
         readonly |-> f = "ro"]]

\* CatalogObjectReference.__init__: the allow_unsaved flag of each reference.
AllowUnsaved == [f \in RefFields |-> f = "uref"]

\* CatalogObjectReference.id_field: the attribute name plus "_id".
IdField(f) == IF f = "ref" THEN "ref_id" ELSE "uref_id"

\* The attributes declared on the File mapping class, each a plain
\* Attribute() with the default flags.
FileFields == {"href"}

FileSchema == [fld \in FileFields |-> [mutable |-> TRUE, readonly |-> FALSE]]

\* ---------------------------------------------------------------- Attribute

Attribute_serialize(value) == value

Attribute_deserialize(value, validate) == value

\* A policy check that forgets the readonly flag.
RaiseIfImmutable(flags, has_obj, present) ==
    ~flags.mutable /\ (~has_obj \/ present)

\* A policy check that lets an immutable attribute pass when no object is
\* given.
RaiseIfSetOnObject(flags, has_obj, present) ==
    \/ flags.readonly
    \/ (~flags.mutable /\ has_obj /\ present)

\* TRUE when _raise_if_immutable_or_readonly(operation, obj) raises; has_obj:
\* obj is not None; present: the attribute's name is in obj._attributes.
RaiseIfImmutableOrReadonly(flags, has_obj, present) ==
    \/ flags.readonly
    \/ (~flags.mutable /\ (~has_obj \/ present))

\* ---------------------------------------------------------------- owners

\* One invocation of a model object's _set_modified(name, changed, validate).
\* The callback belongs to the owning object; it either returns or raises.
Call(o, name, changed, validate, raised) ==
    [o |-> o, name |-> name, changed |-> changed, validate |-> validate,
     raised |-> raised]

Raised(cs) == Len(cs) > 0 /\ cs[Len(cs)].raised

\* A __set__ that writes although the owner's callback raised.
CommittedAnyway(veto, new, old) == new

\* The statements of a __set__ that follow obj._set_modified(...): they run
\* only when the callback returns, so a value is the new one unless the
\* callback raised.
Committed(veto, new, old) == IF veto THEN old ELSE new

\* The record kept of an operation: its name, the kind of attribute it acted
\* on, the object it was called on, the attribute name, one value (the value
\* given, or the value returned by pop), an index, the validate flag, the
\* value returned (out) and the id looked up in the catalog (lookup).
NoOp == [op |-> "init", kind |-> "none", tgt |-> None, f |-> "none",
         v |-> None, i |-> 0, validate |-> TRUE, out |-> None,
         lookup |-> None]

Op(op, kind, tgt, f, v, validate) ==
    [op |-> op, kind |-> kind, tgt |-> tgt, f |-> f, v |-> v, i |-> 0,
     validate |-> validate, out |-> None, lookup |-> None]

\* The record of a list method: v is the item given to append or returned by
\* pop, i the index given to pop.
ListOp(op, k, v, i) ==
    [op |-> op, kind |-> "list", tgt |-> <<"l", k>>, f |-> "none", v |-> v,
     i |-> i, validate |-> TRUE, out |-> None, lookup |-> None]

\* ---------------------------------------------------------------- Init

Init ==
    /\ attrs = [o \in Owners |-> [f \in Fields |-> Unset]]
    /\ mcount = 0
    /\ mattrs = [k \in MapIds |-> [fld \in FileFields |-> Unset]]
    /\ mowners = [k \in MapIds |-> <<>>]
    /\ lcount = 0
    /\ litems = [k \in ListIds |-> <<>>]
    /\ lowners = [k \in ListIds |-> <<>>]
    /\ lflags = [k \in ListIds |-> [mutable |-> TRUE, readonly |-> FALSE]]
    /\ last = NoOp
    /\ result = "ok"
    /\ calls = <<>>
    /\ xyz = [id |-> "", channel |-> "c1"]
    /\ listener = [callbacks |-> <<>>, thread |-> "none", msg |-> 0,
                   idx |-> 0, sent |-> 0, log |-> <<>>]
    /\ life = [listens |-> 0, stale |-> <<>>, cancelled |-> FALSE,
               stop |-> "none"]

mapVars == <<mcount, mattrs, mowners>>
listVars == <<lcount, litems, lowners, lflags>>
xyzVars == <<xyz, listener, life>>

\* ---------------------------------------------------------------- Attribute.__set__ / __delete__

\* Attribute.__set__(obj, value, validate); veto: the owner's callback raises.
AttrSet(o, f, v, validate, veto) ==
    /\ last' = Op("set", "attr", o, f, v, validate)
    /\ UNCHANGED <<mapVars, listVars, xyzVars>>
    /\ IF validate /\ RaiseIfImmutableOrReadonly(Schema[f], TRUE, attrs[o][f] # Unset)
       THEN /\ result' = "AttributeValidationError"
            /\ calls' = <<>>
            /\ UNCHANGED attrs
       ELSE LET value == Attribute_deserialize(v, validate)
                changed == ~(attrs[o][f] # Unset /\ attrs[o][f] = value)
            IN  /\ calls' = <<Call(o, f, changed, validate, veto)>>
                /\ result' = IF veto THEN "CallbackError" ELSE "ok"
                /\ attrs' = Committed(veto, [attrs EXCEPT ![o][f] = value],
                                      attrs)

\* Attribute.__delete__(obj, validate)
AttrDelete(o, f, validate) ==
    /\ last' = Op("delete", "attr", o, f, None, validate)
    /\ calls' = <<>>
    /\ UNCHANGED <<mapVars, listVars, xyzVars>>
    /\ IF validate /\ RaiseIfImmutableOrReadonly(Schema[f], TRUE, attrs[o][f] # Unset)
       THEN /\ result' = "AttributeValidationError"
            /\ UNCHANGED attrs
       ELSE /\ result' = "ok"
            /\ attrs' = [attrs EXCEPT ![o][f] = Unset]


\* ---------------------------------------------------------------- Timestamp

\* The outcome of a call: what it returned, or the exception it raised.
Returned(val) == [res |-> "ok", val |-> val]
Raises(exc) == [res |-> exc, val |-> None]

Dt(t, us, tz) == <<"dt", t, us, tz>>
Str(t, ns, suffix, digits) == <<"s", t, ns, suffix, digits>>
Garbage == Str(0, 0, "garbage", 0)
IsDatetime(x) == x[1] = "dt"
IsString(x) == x[1] = "s"

\* len(date_str): 19 characters up to the seconds, the point and the digits
\* of the fraction, and the suffix.
StrLen(x) ==
    IF x[4] = "garbage" THEN 7
    ELSE 19 + (IF x[5] = 0 THEN 0 ELSE 1 + x[5])
            + (IF x[4] = "Z" THEN 1 ELSE IF x[4] = "+00:00" THEN 6 ELSE 0)

\* A cut to six digits that rounds to the nearest microsecond.
Rounded(x) ==
    IF StrLen(x) <= 27 THEN x
    ELSE IF x[4] = "Z"
         THEN Str(x[2], ((x[3] + 500) \div 1000) * 1000, "Z", 6)
         ELSE Garbage

\* date_str[0:26] + date_str[-1] of a string longer than 27 characters: the
\* fraction is cut to six digits and the last character is put after it,
\* which gives a well formed string only when that character is Z (a string
\* longer than 27 has a fraction of more than six digits, or a suffix after
\* a fraction of at least two).
Truncated(x) ==
    IF StrLen(x) <= 27 THEN x
    ELSE IF x[4] = "Z" THEN Str(x[2], (x[3] \div 1000) * 1000, "Z", 6)
         ELSE Garbage

\* datetime.strptime(date_str, "%Y-%m-%dT%H:%M:%S.%fZ"): %f takes one to six
\* digits.
ParsesWithFraction(x) == x[4] = "Z" /\ x[5] \in 1..6

\* datetime.strptime(date_str, "%Y-%m-%dT%H:%M:%SZ")
ParsesWithoutFraction(x) == x[4] = "Z" /\ x[5] = 0

\* parse_iso_datetime(date_str) of a string
parse_iso_datetime(date_str) ==
    LET x == Truncated(date_str)
    IN  IF ParsesWithFraction(x) THEN Returned(Dt(x[2], x[3] \div 1000, "utc"))
        ELSE IF ParsesWithoutFraction(x) THEN Returned(Dt(x[2], 0, "utc"))
             ELSE Raises("ValueError")

\* datetime.isoformat(value): the fraction is written, with six digits, only
\* when the microsecond is not 0; an aware UTC datetime ends in +00:00.
isoformat(value) ==
    Str(value[2], value[3] * 1000,
        IF value[4] = "utc" THEN "+00:00" ELSE "",
        IF value[3] = 0 THEN 0 ELSE 6)

serialize_datetime(value) ==
    IF IsDatetime(value) THEN isoformat(value) ELSE value

\* Timestamp.serialize
Timestamp_serialize(value) == serialize_datetime(value)

\* A Timestamp.deserialize that parses when validate is set and passes the
\* value through when it is not.
Timestamp_deserializeWhenValidating(value, validate) ==
    IF value = None \/ ~validate THEN Returned(value)
    ELSE IF IsDatetime(value)
         THEN Returned(Dt(value[2], value[3], "utc"))
         ELSE IF ~IsString(value) THEN Raises("TypeError")
              ELSE IF parse_iso_datetime(value).res = "ok"
                   THEN parse_iso_datetime(value)
                   ELSE Raises("AttributeValidationError")

\* Timestamp.deserialize: parse_iso_datetime of a value that is not a string
\* fails in len() with a TypeError, which is not caught.
Timestamp_deserialize(value, validate) ==
    IF value = None \/ validate THEN Returned(value)
    ELSE IF IsDatetime(value)
         THEN Returned(Dt(value[2], value[3], "utc"))
         ELSE IF ~IsString(value) THEN Raises("TypeError")
              ELSE IF parse_iso_datetime(value).res = "ok"
                   THEN parse_iso_datetime(value)
                   ELSE Raises("AttributeValidationError")

\* A pure function applied to v: the record keeps the argument in v and what
\* was returned in out.
Applied(op, kind, v, validate, r) ==
    /\ last' = [Op(op, kind, None, "none", v, validate) EXCEPT !.out = r.val]
    /\ result' = r.res
    /\ calls' = <<>>
    /\ UNCHANGED <<attrs, mapVars, listVars, xyzVars>>

\* parse_iso_datetime(date_str), called on its own.
ParseIsoDatetime(date_str) ==
    Applied("parse", "timestamp", date_str, TRUE,
            parse_iso_datetime(date_str))

\* Timestamp.deserialize(value, validate)
TimestampDeserialize(v, validate) ==
    Applied("deserialize", "timestamp", v, validate,
            Timestamp_deserialize(v, validate))

\* ---------------------------------------------------------------- EnumAttribute

\* The members of the enum class (ResolutionUnit has two) and their string
\* values.
E(k) == <<"e", k>>
EnumMembers == {E(1), E(2)}
IsMember(x) == x[1] = "e"
MemberValue(x) == V(x[2])

\* self._enum_cls(value): the member itself, the member with that string
\* value, or ValueError.
EnumLookup(value) ==
    IF IsMember(value) THEN Returned(value)
    ELSE IF \E m \in EnumMembers : MemberValue(m) = value
         THEN Returned(CHOOSE m \in EnumMembers : MemberValue(m) = value)
         ELSE Raises("ValueError")

\* EnumAttribute.serialize
EnumAttribute_serialize(value) ==
    IF IsMember(value) THEN MemberValue(value) ELSE value

\* EnumAttribute.deserialize
EnumAttribute_deserialize(value, validate) ==
    IF validate
    THEN IF EnumLookup(value).res = "ok"
         THEN Returned(MemberValue(EnumLookup(value).val))
         ELSE EnumLookup(value)
    ELSE Returned(value)

\* EnumAttribute.deserialize(value, validate), called on its own.
EnumDeserialize(v, validate) ==
    Applied("deserialize", "enum", v, validate,
            EnumAttribute_deserialize(v, validate))

\* Attribute.__set__(obj, value, validate) of an EnumAttribute: the inherited
\* __set__ with the deserialize of EnumAttribute.
EnumSet(o, f, v, validate, veto) ==
    /\ last' = Op("set", "enum", o, f, v, validate)
    /\ UNCHANGED <<mapVars, listVars, xyzVars>>
    /\ IF validate /\ RaiseIfImmutableOrReadonly(Schema[f], TRUE, attrs[o][f] # Unset)
       THEN /\ result' = "AttributeValidationError"
            /\ calls' = <<>>
            /\ UNCHANGED attrs
       ELSE LET r == EnumAttribute_deserialize(v, validate)
                changed == ~(attrs[o][f] # Unset /\ attrs[o][f] = r.val)
            IN  IF r.res # "ok"
                THEN /\ result' = r.res
                     /\ calls' = <<>>
                     /\ UNCHANGED attrs
                ELSE /\ calls' = <<Call(o, f, changed, validate, veto)>>
                     /\ result' = IF veto THEN "CallbackError" ELSE "ok"
                     /\ attrs' = Committed(veto,
                                    [attrs EXCEPT ![o][f] = r.val], attrs)

\* ---------------------------------------------------------------- BooleanAttribute

PyTrue == <<"bool", 1>>
PyFalse == <<"bool", 0>>
Bool(b) == IF b THEN PyTrue ELSE PyFalse

\* bool(value): None, False and 0 are false, the other values modelled are
\* true.
Truthy(x) == x \notin {None, PyFalse, V(0)}

\* BooleanAttribute.serialize
BooleanAttribute_serialize(value) == Bool(Truthy(value))

\* BooleanAttribute.deserialize
BooleanAttribute_deserialize(value, validate) == Returned(Bool(Truthy(value)))

\* ---------------------------------------------------------------- mapping classes

\* Three mapping classes: MyMapping declares foo = Attribute(), flag =
\* BooleanAttribute() and note = Attribute(serializable=False); SubMapping is
\* a subclass of MyMapping that declares nothing more; File declares href.
Classes == {"MyMapping", "SubMapping", "File"}

\* AttributeMeta.__new__: _attribute_types of a class, with the attributes
\* inherited from its bases.
ClassFields(cls) == IF cls = "File" THEN FileFields ELSE {"foo", "flag", "note"}

FieldType(name) == IF name = "flag" THEN "boolean" ELSE "attribute"

Serializable(name) == name # "note"

\* isinstance(x, cls) for an instance x of class c: c is cls or a subclass
\* of it.
IsSubclass(c, cls) == c = cls \/ (c = "SubMapping" /\ cls = "MyMapping")

Instance(cls, id, a, owners) == <<"inst", cls, id, a, owners>>
Dict(a) == <<"dict", a>>
IsInst(x) == x[1] = "inst"
IsPlainDict(x) == x[1] = "dict"
ClassOf(x) == x[2]
AttributesOf(x) == x[4]

\* d.get(name): None for an absent key.
Get(a, name) == IF name \in DOMAIN a THEN a[name] ELSE None

\* attribute_type.serialize(value) of the attribute declared under a name
FieldSerialize(name, value) ==
    IF FieldType(name) = "boolean" THEN BooleanAttribute_serialize(value)
    ELSE Attribute_serialize(value)

\* attribute_type.deserialize(value, validate) of the attribute declared
\* under a name
FieldDeserialize(name, value, validate) ==
    IF FieldType(name) = "boolean"
    THEN BooleanAttribute_deserialize(value, validate).val
    ELSE Attribute_deserialize(value, validate)

\* An __eq__ that compares the attributes without looking at the class.
Mixin_eqAnyClass(self, other) ==
    /\ IsInst(other)
    /\ \A name \in ClassFields(ClassOf(self)) :
         Serializable(name)
            => FieldSerialize(name, Get(AttributesOf(self), name))
                 = FieldSerialize(name, Get(AttributesOf(other), name))

\* An __eq__ that compares the stored values, not their serialized forms.
Mixin_eqRaw(self, other) ==
    /\ IsInst(other) /\ IsSubclass(ClassOf(other), ClassOf(self))
    /\ \A name \in ClassFields(ClassOf(self)) :
         Serializable(name)
            => Get(AttributesOf(self), name) = Get(AttributesOf(other), name)

\* AttributeEqualityMixin.__eq__(self, other)
Mixin_eq(self, other) ==
    /\ IsInst(other) /\ IsSubclass(ClassOf(other), ClassOf(self))
    /\ \A name \in ClassFields(ClassOf(self)) :
         Serializable(name)
            => FieldSerialize(name, Get(AttributesOf(self), name))
                 = FieldSerialize(name, Get(AttributesOf(other), name))

\* x == y between two instances: when the class of y is a proper subclass of
\* the class of x, Python calls y.__eq__(x) first, and the __eq__ of the
\* mixin always answers, so x.__eq__(y) is not consulted.
PyEq(x, y) ==
    IF ClassOf(x) # ClassOf(y) /\ IsSubclass(ClassOf(y), ClassOf(x))
    THEN Mixin_eq(y, x)
    ELSE Mixin_eq(x, y)

\* A serialize that writes every attribute, serializable or not.
Mapping_serializeAll(cls, x) ==
    IF x = None THEN Returned(None)
    ELSE LET data == IF IsInst(x) THEN AttributesOf(x) ELSE x[2]
         IN  IF \E name \in DOMAIN data : name \notin ClassFields(cls)
             THEN Raises("AttributeError")
             ELSE Returned(Dict(
                    [name \in DOMAIN data |->
                        FieldSerialize(name, data[name])]))

\* MappingAttribute.serialize(attrs) of the descriptor of class cls
Mapping_serialize(cls, x) ==
    IF x = None THEN Returned(None)
    ELSE LET data == IF IsInst(x) THEN AttributesOf(x) ELSE x[2]
         IN  IF \E name \in DOMAIN data : name \notin ClassFields(cls)
             THEN Raises("AttributeError")
             ELSE Returned(Dict(
                    [name \in {n \in DOMAIN data : Serializable(n)} |->
                        FieldSerialize(name, data[name])]))

\* MappingAttribute.__init__(validate=validate, **values) of class cls: the
\* new instance has identity id and no owners; with validate an unknown name
\* raises AttributeError, without it the name is skipped.
Mapping_init(cls, id, values, validate) ==
    IF validate /\ \E name \in DOMAIN values : name \notin ClassFields(cls)
    THEN Raises("AttributeError")
    ELSE Returned(Instance(cls, id,
            [name \in DOMAIN values \cap ClassFields(cls) |->
                FieldDeserialize(name, values[name], validate)], {}))

\* MappingAttribute.deserialize(values, validate) of the descriptor of class
\* cls; id is the identity of the instance it may construct.
Mapping_deserialize(cls, values, validate, id) ==
    IF values = None THEN Returned(None)
    ELSE IF IsInst(values) THEN Returned(values)
         ELSE IF ~IsPlainDict(values)
              THEN Raises("AttributeValidationError")
              ELSE Mapping_init(cls, id, values[2], validate)

\* ---------------------------------------------------------------- lists of items, by value

\* A ListAttribute instance with identity id, and a plain list.
ListValue(id, items) == <<"lattr", id, items>>
PlainValue(items) == <<"plain", items>>
IsListValue(x) == x[1] = "lattr"
IsPlainValue(x) == x[1] = "plain"
ItemsOf(x) == x[3]

\* item_type.serialize(value) and item_type.deserialize(value, validate) of
\* an attribute type; a mapping type is the class MyMapping.
Type_serialize(type, value) ==
    IF type = "timestamp" THEN Returned(Timestamp_serialize(value))
    ELSE IF type = "enum" THEN Returned(EnumAttribute_serialize(value))
    ELSE IF type = "boolean" THEN Returned(BooleanAttribute_serialize(value))
    ELSE IF type = "mapping" THEN Mapping_serialize("MyMapping", value)
    ELSE Returned(Attribute_serialize(value))

Type_deserialize(type, value, validate) ==
    IF type = "timestamp" THEN Timestamp_deserialize(value, validate)
    ELSE IF type = "enum" THEN EnumAttribute_deserialize(value, validate)
    ELSE IF type = "boolean" THEN BooleanAttribute_deserialize(value, validate)
    ELSE IF type = "mapping"
         THEN Mapping_deserialize("MyMapping", value, validate, 0)
    ELSE Returned(Attribute_deserialize(value, validate))

\* ListAttribute.serialize(values) of a list of items of a type
List_serialize(type, x) ==
    IF x = None THEN Returned(None)
    ELSE LET items == ItemsOf(x)
         IN  IF \E n \in 1..Len(items) :
                    Type_serialize(type, items[n]).res # "ok"
             THEN Raises("AttributeError")
             ELSE Returned(PlainValue(
                    [n \in 1..Len(items) |->
                        Type_serialize(type, items[n]).val]))

\* ListAttribute._instantiate_item(item, validate): an item of a mapping
\* type that is not an instance is constructed from the dict; an item of any
\* other type is kept as it is.
Item_instantiate(type, item, validate) ==
    IF type = "mapping" /\ ~IsInst(item)
    THEN IF IsPlainDict(item)
         THEN Mapping_init("MyMapping", 0, item[2], validate)
         ELSE Raises("TypeError")
    ELSE Returned(item)

\* ListAttribute.deserialize(values, validate) of a list of items of a type;
\* the list it may construct has identity 0.
List_deserialize(type, x, validate) ==
    IF x = None THEN Returned(None)
    ELSE IF IsListValue(x) THEN Returned(x)
    ELSE IF ~IsPlainValue(x) THEN Raises("AttributeValidationError")
    ELSE LET items == x[2]
             failed == {n \in 1..Len(items) :
                          Item_instantiate(type, items[n], validate).res
                            # "ok"}
         IN  IF failed # {}
             THEN Item_instantiate(type,
                    items[CHOOSE n \in failed : \A m \in failed : n <= m],
                    validate)
             ELSE Returned(ListValue(0,
                    [n \in 1..Len(items) |->
                        Item_instantiate(type, items[n], validate).val]))

\* i1 == i2 between two items of a list
ItemEq(x, y) == IF IsInst(x) /\ IsInst(y) THEN PyEq(x, y) ELSE x = y

\* ListAttribute.__eq__(self, other)
List_eq(x, y) ==
    \/ x = y
    \/ /\ IsListValue(y)
       /\ Len(ItemsOf(x)) = Len(ItemsOf(y))
       /\ \A n \in 1..Len(ItemsOf(x)) : ItemEq(ItemsOf(x)[n], ItemsOf(y)[n])

\* ---------------------------------------------------------------- round trip

\* serialize and deserialize of an attribute of a kind: one of the types, or
\* a list of items of a type.
Kind_serialize(kind, v) ==
    IF kind[1] = "list" THEN List_serialize(kind[2], v)
    ELSE Type_serialize(kind[2], v)

Kind_deserialize(kind, s, validate) ==
    IF kind[1] = "list" THEN List_deserialize(kind[2], s, validate)
    ELSE Type_deserialize(kind[2], s, validate)

\* a == b under the equality of the values of an attribute of a kind
KindEq(kind, a, b) ==
    IF IsListValue(a) THEN List_eq(a, b)
    ELSE IF IsInst(a) /\ IsInst(b) THEN PyEq(a, b)
    ELSE a = b

\* deserialize(serialize(v), validate) for an attribute of a kind; the record
\* keeps the kind in tgt.
RoundTrip(kind, v, validate) ==
    LET s == Kind_serialize(kind, v)
        r == IF s.res = "ok" THEN Kind_deserialize(kind, s.val, validate)
             ELSE s
    IN  /\ last' = [Op("roundtrip", "value", kind, "none", v, validate)
                        EXCEPT !.out = r.val]
        /\ result' = r.res
        /\ calls' = <<>>
        /\ UNCHANGED <<attrs, mapVars, listVars, xyzVars>>

\* ---------------------------------------------------------------- calls on mapping values

\* x == y between two mapping instances; the record keeps x in tgt and y in
\* v.
Equals(x, y) ==
    /\ last' = [Op("eq", "mapping", x, "none", y, TRUE)
                    EXCEPT !.out = Bool(PyEq(x, y))]
    /\ result' = "ok"
    /\ calls' = <<>>
    /\ UNCHANGED <<attrs, mapVars, listVars, xyzVars>>

\* MappingAttribute.deserialize(values, validate) of the descriptor of class
\* cls, called on its own; the record keeps the class in tgt.
MappingDeserialize(cls, values, validate) ==
    LET r == Mapping_deserialize(cls, values, validate, 0)
    IN  /\ last' = [Op("deserialize", "mapping", <<"class", cls>>, "none",
                       values, validate) EXCEPT !.out = r.val]
        /\ result' = r.res
        /\ calls' = <<>>
        /\ UNCHANGED <<attrs, mapVars, listVars, xyzVars>>

\* MappingAttribute.serialize(attrs) of the descriptor of class cls, called
\* on its own; the record keeps the class in tgt.
MappingSerialize(cls, x) ==
    LET r == Mapping_serialize(cls, x)
    IN  /\ last' = [Op("serialize", "mapping", <<"class", cls>>, "none",
                       x, TRUE) EXCEPT !.out = r.val]
        /\ result' = r.res
        /\ calls' = <<>>
        /\ UNCHANGED <<attrs, mapVars, listVars, xyzVars>>

\* ---------------------------------------------------------------- AttributeMeta

\* The members of a class body: the Attribute, the CatalogObjectReference
\* and the member that is no Attribute declared under a name in the body of
\* class c. Two members are the same object when they are the same tuple.
Attr(c, name) == <<"attr", c, name>>
Ref(c, name) == <<"refattr", c, name>>
Other(c, name) == <<"other", c, name>>

\* isinstance(attr_type, Attribute), isinstance(attr_type,
\* CatalogObjectReference)
IsAttribute(member) == member[1] \in {"attr", "refattr"}
IsReference(member) == member[1] = "refattr"

\* A dict in insertion order: the sequence of its <<key, value>> items.
DictHas(d, key) == \E n \in 1..Len(d) : d[n][1] = key
DictPut(d, key, value) ==
    IF DictHas(d, key)
    THEN [n \in 1..Len(d) |-> IF d[n][1] = key THEN <<key, value>> ELSE d[n]]
    ELSE Append(d, <<key, value>>)
DictKeys(d) == [n \in 1..Len(d) |-> d[n][1]]

RECURSIVE Inherit(_, _)
\* `if attr_name not in types: types[attr_name] = attr_type` for the items of
\* a base's dict, in order.
Inherit(d, items) ==
    IF items = <<>> THEN d
    ELSE Inherit(IF DictHas(d, Head(items)[1]) THEN d
                 ELSE Append(d, Head(items)),
                 Tail(items))

RECURSIVE InheritAll(_, _, _)
\* The loop over the bases for one of the two dicts (key "types" or
\* "references"): a base without the dict (hasattr fails) is skipped.
InheritAll(d, bases, key) ==
    IF bases = <<>> THEN d
    ELSE InheritAll(IF Head(bases).meta THEN Inherit(d, Head(bases)[key])
                    ELSE d,
                    Tail(bases), key)

RECURSIVE PutAll(_, _)
PutAll(d, items) ==
    IF items = <<>> THEN d
    ELSE PutAll(DictPut(d, Head(items)[1], Head(items)[2]), Tail(items))

\* A class: whether AttributeMeta built it, its _attribute_types, its
\* _reference_attribute_types, its ATTRIBUTES and the rest of its class
\* dict.
Class(meta, types, references, dict) ==
    [meta |-> meta, types |-> types, references |-> references,
     ATTRIBUTES |-> DictKeys(types), dict |-> dict]

\* A class that AttributeMeta did not build.
PlainClass == Class(FALSE, <<>>, <<>>, <<>>)

\* An AttributeMeta.__new__ that inherits nothing when _no_inherit is set.
Meta_newNoInherit(body, bases, no_inherit) ==
    LET declared == SelectSeq(body, LAMBDA e : IsAttribute(e[2]))
        types == IF no_inherit THEN declared
                 ELSE InheritAll(declared, bases, "types")
        references ==
            InheritAll(SelectSeq(body, LAMBDA e : IsReference(e[2])),
                       bases, "references")
    IN  Class(TRUE, types, references, body)

\* AttributeMeta.__new__(cls, name, bases, attrs): body is attrs as the class
\* statement left it, no_inherit whether it sets _no_inherit to a true
\* value.
Meta_new(body, bases, no_inherit) ==
    LET declared == SelectSeq(body, LAMBDA e : IsAttribute(e[2]))
        types == InheritAll(declared, bases, "types")
        references ==
            InheritAll(SelectSeq(body, LAMBDA e : IsReference(e[2])),
                       bases, "references")
        inherited == SubSeq(types, Len(declared) + 1, Len(types))
    IN  Class(TRUE, types, references,
              IF no_inherit THEN body ELSE PutAll(body, inherited))

\* A class statement: the record keeps the bases in tgt, the body in v,
\* _no_inherit in i and the class built in out.
ClassNew(body, bases, no_inherit) ==
    /\ last' = [Op("new", "class", bases, "none", body, TRUE)
                    EXCEPT !.i = IF no_inherit THEN 1 ELSE 0,
                           !.out = Meta_new(body, bases, no_inherit)]
    /\ result' = "ok"
    /\ calls' = <<>>
    /\ UNCHANGED <<attrs, mapVars, listVars, xyzVars>>

\* ---------------------------------------------------------------- XYZ

\* An xyz_pb2.XYZ message: its id ("" until the service assigns one) and its
\* channel; as a value, <<"msg", id, channel>>.
Message(id, channel) == [id |-> id, channel |-> channel]

\* An id property that hands out the id of the message as it is.
XYZ_idRaw(message) == <<"str", message.id>>

\* XYZ.id
XYZ_id(message) ==
    IF message.id = "" THEN None ELSE <<"str", message.id>>

\* XYZ.url(session_id): the template holds the channel and the id, and the
\* session id as a query argument when one is given.
XYZ_url(message, session_id) ==
    IF XYZ_id(message) = None THEN Raises("ValueError")
    ELSE Returned(<<"url", message.channel, message.id, session_id>>)

\* A read of xyz.id
XYZId ==
    /\ last' = [Op("id", "xyz", None, "none", None, TRUE)
                    EXCEPT !.out = XYZ_id(xyz)]
    /\ result' = "ok"
    /\ calls' = <<>>
    /\ UNCHANGED <<attrs, mapVars, listVars, xyzVars>>

\* xyz.url(session_id); the record keeps in i whether the call before it was
\* a save that returned.
XYZUrl(session_id) ==
    LET r == XYZ_url(xyz, session_id)
    IN  /\ last' = [Op("url", "xyz", None, "none", <<"str", session_id>>, TRUE)
                        EXCEPT !.out = r.val,
                               !.i = IF last.op = "save" /\ result = "ok"
                                     THEN 1 ELSE 0]
        /\ result' = r.res
        /\ calls' = <<>>
        /\ UNCHANGED <<attrs, mapVars, listVars, xyzVars>>

\* xyz.save(): the CreateXYZ call either raises or returns the message the
\* service made, which becomes the message of the object.
XYZSave(reply, fails) ==
    /\ last' = Op("save", "xyz", None, "none",
                  <<"msg", reply.id, reply.channel>>, TRUE)
    /\ result' = IF fails THEN "RpcError" ELSE "ok"
    /\ calls' = <<>>
    /\ xyz' = IF fails THEN xyz ELSE reply
    /\ UNCHANGED <<attrs, mapVars, listVars, listener, life>>

\* ---------------------------------------------------------------- XYZErrorListener

\* `listener` holds self.callbacks, the thread in self._thread with its
\* place in the loops of _listener (thread, msg, idx), the number of
\* messages taken from the stream in self._rendezvous (sent), and the log of
\* every callback call made. `life` holds the number of listen() calls, the
\* threads started by an earlier listen() that were alive when a later
\* listen() took their place in self._thread (stale), whether the stream in
\* self._rendezvous was cancelled, and where a stop() call is: "none",
\* "joining" (inside join), "true" or "false" (what it returned).

Dead == {"none", "done", "failed"}

\* The listener as thread t sees it: thread 0 is the thread in self._thread,
\* thread t > 0 the t-th stale thread, which reads its own stream unless it
\* shares the one in self._rendezvous.
View(t) ==
    IF t = 0 THEN listener
    ELSE [listener EXCEPT !.thread = life.stale[t].thread,
                          !.msg = life.stale[t].msg,
                          !.idx = life.stale[t].idx,
                          !.sent = IF life.stale[t].shared THEN listener.sent
                                   ELSE life.stale[t].sent]

\* rendezvous.cancel() was called on the stream thread t reads: stop()
\* cancels the stream in self._rendezvous only.
Cancelled(t) ==
    IF t = 0 THEN life.cancelled
    ELSE life.stale[t].shared /\ life.cancelled

\* A step of thread t that leaves the listener as `new` in its view.
ThreadStep(t, op, f, v, res, new) ==
    /\ last' = [Op(op, "listener", None, f, v, TRUE) EXCEPT !.i = t]
    /\ result' = res
    /\ calls' = <<>>
    /\ IF t = 0
       THEN /\ listener' = new
            /\ life' = life
       ELSE /\ listener' = [listener EXCEPT
                    !.log = new.log,
                    !.sent = IF life.stale[t].shared THEN new.sent ELSE @]
            /\ life' = [life EXCEPT !.stale[t] =
                    [thread |-> new.thread, msg |-> new.msg,
                     idx |-> new.idx, sent |-> new.sent,
                     shared |-> life.stale[t].shared]]
    /\ UNCHANGED <<attrs, mapVars, listVars, xyz>>

\* A call of the client on the listener: the threads are as they were.
ListenerStep(op, v, res, new, newlife) ==
    /\ last' = Op(op, "listener", None, "none", v, TRUE)
    /\ result' = res
    /\ calls' = <<>>
    /\ listener' = new
    /\ life' = newlife
    /\ UNCHANGED <<attrs, mapVars, listVars, xyz>>

\* XYZErrorListener.add_callback(callback); the client is not inside stop().
AddCallback(c) ==
    /\ Len(listener.callbacks) < MaxCallbacks
    /\ life.stop # "joining"
    /\ ListenerStep("add_callback", <<"cb", c>>, "ok",
            [listener EXCEPT !.callbacks = Append(@, c)], life)

\* XYZErrorListener.listen(session_id): a new stream is put in
\* self._rendezvous and a new thread in self._thread and started. A thread
\* started by an earlier listen() that is still alive goes on with the
\* stream it iterates; raced: it had been started but had not yet read
\* self._rendezvous, so that it will iterate the new stream together with the
\* new thread.
Listen(raced) ==
    /\ life.listens < MaxListens
    /\ life.stop # "joining"
    /\ raced => (listener.thread = "waiting" /\ listener.sent = 0)
    /\ ListenerStep("listen", None, "ok",
            [listener EXCEPT !.thread = "waiting", !.msg = 0, !.idx = 0,
                             !.sent = 0],
            [listens |-> life.listens + 1,
             stale |-> IF listener.thread \in Dead THEN life.stale
                       ELSE Append(life.stale,
                                [thread |-> listener.thread,
                                 msg |-> listener.msg,
                                 idx |-> listener.idx,
                                 sent |-> listener.sent,
                                 shared |-> raced]),
             cancelled |-> FALSE,
             stop |-> "none"])

\* XYZErrorListener.stop(timeout), up to the join: the stream in
\* self._rendezvous is cancelled (there is none before the first listen()).
Stop ==
    /\ life.stop # "joining"
    /\ IF life.listens = 0
       THEN ListenerStep("stop", None, "AttributeError", listener, life)
       ELSE ListenerStep("stop", None, "ok", listener,
                [life EXCEPT !.cancelled = TRUE, !.stop = "joining"])

\* XYZErrorListener.stop(timeout), from the join on: join returns when the
\* thread in self._thread is over, or when the timeout expires (timed_out),
\* and stop returns whether that thread is over.
StopReturns(timed_out) ==
    /\ life.stop = "joining"
    /\ timed_out = (listener.thread \notin Dead)
    /\ last' = [Op("stop_returns", "listener", None, "none", None, TRUE)
                    EXCEPT !.out = Bool(~timed_out)]
    /\ result' = "ok"
    /\ calls' = <<>>
    /\ life' = [life EXCEPT !.stop = IF timed_out THEN "false" ELSE "true"]
    /\ UNCHANGED <<attrs, mapVars, listVars, xyz, listener>>

\* _listener: `for msg in self._rendezvous` receives the next message of the
\* stream; a cancelled stream gives none.
StreamYield(t) ==
    /\ t <= Len(life.stale)
    /\ View(t).thread = "waiting"
    /\ View(t).sent < MaxMessages
    /\ ~Cancelled(t)
    /\ ThreadStep(t, "yield", "none", None, "ok",
            [View(t) EXCEPT !.thread = "delivering",
                            !.sent = @ + 1,
                            !.msg = View(t).sent + 1,
                            !.idx = 1])

\* _listener: the stream ends ("end") or raises grpc.RpcError ("rpc_error",
\* as a cancelled stream does), which the thread catches: it returns either
\* way.
StreamStops(t, how) ==
    /\ t <= Len(life.stale)
    /\ View(t).thread = "waiting"
    /\ Cancelled(t) => how = "rpc_error"
    /\ ThreadStep(t, how, "none", None, "ok",
                  [View(t) EXCEPT !.thread = "done"])

\* A thread that goes on to the next callback when a callback raised.
AfterCallKeepsGoing(l, raised) ==
    [l EXCEPT !.idx = @ + 1,
              !.log = Append(@, <<l.msg, l.idx, l.callbacks[l.idx]>>)]

\* The thread after callback(msg) of the callback at idx: when the callback
\* raised, the thread is over (grpc.RpcError is caught and the thread
\* returns, any other exception ends it).
AfterCall(l, raised) ==
    [l EXCEPT !.idx = @ + 1,
              !.thread = IF raised = "none" THEN @ ELSE "failed",
              !.log = Append(@, <<l.msg, l.idx, l.callbacks[l.idx]>>)]

\* _listener: `for callback in self.callbacks: callback(msg)` calls the next
\* callback of the list as it is now; raised: what the callback raised, kept
\* in the record of the call.
Deliver(t, raised) ==
    /\ t <= Len(life.stale)
    /\ View(t).thread = "delivering"
    /\ View(t).idx <= Len(listener.callbacks)
    /\ ThreadStep(t, "callback", raised,
            <<"cb", listener.callbacks[View(t).idx]>>,
            IF raised = "Exception" THEN "Exception" ELSE "ok",
            AfterCall(View(t), raised))

\* _listener: the loop over the callbacks is exhausted.
LoopEnd(t) ==
    /\ t <= Len(life.stale)
    /\ View(t).thread = "delivering"
    /\ View(t).idx > Len(listener.callbacks)
    /\ ThreadStep(t, "loop_end", "none", None, "ok",
                  [View(t) EXCEPT !.thread = "waiting"])

\* ---------------------------------------------------------------- CatalogObjectReference

\* obj._attributes.get(name): an absent key reads as None.
Stored(o, f) == IF attrs[o][f] = Unset THEN None ELSE attrs[o][f]

\* A cache test that only looks for a cached object.
CacheAlwaysValid(cached, reference_id) == IsObject(cached)

\* `cached_value and cached_value.id == reference_id`
CacheValid(cached, reference_id) ==
    IsObject(cached) /\ RefId(cached) = reference_id

\* An id write that stores nothing.
StaleId(value) == None

\* `None if value is None else value.id`
JammedId(value) == IF value = None THEN None ELSE RefId(value)

\* A value check that never looks at the state of the value.
RefRejectsType(value, allow_unsaved) ==
    value # None /\ ~IsReferenceClass(value)

\* TRUE when CatalogObjectReference.__set__ raises for the value: it is not
\* None and either is not an instance of the reference class or is UNSAVED
\* while unsaved references are not allowed.
RefRejects(value, allow_unsaved) ==
    /\ value # None
    /\ \/ ~IsReferenceClass(value)
       \/ (~allow_unsaved /\ RefState(value) = "unsaved")

\* CatalogObjectReference.__get__(model_object, objtype); found: the catalog
\* has an object with the id looked up. The record keeps the value cached
\* before the read in v, and in i whether the call before it was a
\* successful set of the same reference (1, or 2 when that set replaced a
\* stored shadow id).
RefGet(o, f, found) ==
    LET cached == Stored(o, f)
        reference_id == Stored(o, IdField(f))
        after_set == /\ last.op = "set" /\ last.kind = "ref"
                     /\ last.tgt = o /\ last.f = f /\ result = "ok"
        op == [Op("get", "ref", o, f, cached, TRUE) EXCEPT !.i =
                    IF after_set THEN 1 + last.i ELSE 0]
    IN  /\ result' = "ok"
        /\ calls' = <<>>
        /\ UNCHANGED <<mapVars, listVars, xyzVars>>
        /\ IF CacheValid(cached, reference_id)
           THEN /\ last' = [op EXCEPT !.out = cached]
                /\ UNCHANGED attrs
           ELSE LET new_value == IF reference_id # None /\ found
                                 THEN Fetched(reference_id) ELSE None
                IN  /\ last' = [op EXCEPT !.out = new_value,
                                          !.lookup = reference_id]
                    /\ attrs' = [attrs EXCEPT ![o][f] = new_value]

\* `_attributes[name] == value` between two values of a reference: the same
\* object is equal to itself; whether two different catalog objects are
\* equal is up to their class (eq).
RefEq(x, y, eq) == x = y \/ (IsObject(x) /\ IsObject(y) /\ eq)

\* CatalogObjectReference.__set__(model_object, value, validate); veto: which
\* of the two _set_modified calls raises ("first", "second" or "none"). The
\* record keeps in i whether a stored shadow id was replaced by another.
RefSet(o, f, x, validate, veto, eq) ==
    LET idf == IdField(f)
        op == Op("set", "ref", o, f, x, validate)
    IN  /\ UNCHANGED <<mapVars, listVars, xyzVars>>
        /\ IF \/ validate /\ RaiseIfImmutableOrReadonly(Schema[f], TRUE,
                                                      attrs[o][f] # Unset)
              \/ RefRejects(x, AllowUnsaved[f])
           THEN /\ last' = op
                /\ result' = "AttributeValidationError"
                /\ calls' = <<>>
                /\ UNCHANGED attrs
           ELSE LET changed == ~(attrs[o][f] # Unset
                                   /\ RefEq(attrs[o][f], x, eq))
                    first == Call(o, f, changed, validate, veto = "first")
                    second == Call(o, idf, changed, FALSE, veto = "second")
                IN  IF veto = "first"
                    THEN /\ last' = op
                         /\ result' = "CallbackError"
                         /\ calls' = <<first>>
                         /\ UNCHANGED attrs
                    ELSE /\ calls' = <<first, second>>
                         /\ IF veto = "second"
                            THEN /\ last' = op
                                 /\ result' = "CallbackError"
                                 /\ attrs' = [attrs EXCEPT ![o][f] = x]
                            ELSE /\ last' = [op EXCEPT !.i =
                                        IF attrs[o][idf] \notin
                                              {Unset, JammedId(x)}
                                        THEN 1 ELSE 0]
                                 /\ result' = "ok"
                                 /\ attrs' = [attrs EXCEPT
                                        ![o][f] = x,
                                        ![o][idf] = JammedId(x)]

\* ---------------------------------------------------------------- owner registries

\* A _model_objects dict: id(model_object) -> (model_object, attr_name), kept
\* as the sequence of its <<object, name>> entries in insertion order.
RegHas(reg, obj) == \E n \in 1..Len(reg) : reg[n][1] = obj

RegName(reg, obj) == (CHOOSE n \in 1..Len(reg) : reg[n][1] = obj)

\* _add_model_object: a new key is appended, an existing key keeps its place
\* and takes the new attribute name.
AddModelObject(reg, obj, name) ==
    IF RegHas(reg, obj)
    THEN [n \in 1..Len(reg) |->
            IF reg[n][1] = obj THEN <<obj, name>> ELSE reg[n]]
    ELSE Append(reg, <<obj, name>>)

\* A _remove_model_object that forgets to drop the entry.
KeepModelObject(reg, obj) == reg

\* _remove_model_object: pop the key if it is there.
RemoveModelObject(reg, obj) == SelectSeq(reg, LAMBDA e : e[1] # obj)

RECURSIVE Flatten(_, _)
\* The model objects a registry's _set_modified reaches, in call order: an
\* entry that is a ListAttribute forwards to the entries of its own registry.
Flatten(reg, lown) ==
    IF reg = <<>> THEN <<>>
    ELSE LET e == Head(reg)
         IN  (IF IsList(e[1]) THEN lown[e[1][2]] ELSE <<e>>)
                \o Flatten(Tail(reg), lown)

RECURSIVE CallsOf(_, _, _, _)
\* The owner callbacks made for the flattened registry: the loop stops at the
\* first callback that raises.
CallsOf(flat, changed, validate, vetoers) ==
    IF flat = <<>> THEN <<>>
    ELSE LET e == Head(flat)
             r == e[1] \in vetoers
         IN  <<Call(e[1], e[2], changed, validate, r)>>
                \o (IF r THEN <<>>
                    ELSE CallsOf(Tail(flat), changed, validate, vetoers))

\* MappingAttribute._set_modified / ListAttribute._set_modified
SetModified(reg, lown, changed, validate, vetoers) ==
    CallsOf(Flatten(reg, lown), changed, validate, vetoers)

\* ---------------------------------------------------------------- MappingAttribute

\* The mapping instances constructed so far.
Mappings == {M(k) : k \in 1..mcount}

\* AttributeEqualityMixin.__eq__ on File instances k1 and k2, given the
\* _attributes of every instance: all File attributes are serializable and
\* serialize as themselves; an absent key reads as None.
FileGet(ma, k, fld) == IF ma[k][fld] = Unset THEN None ELSE ma[k][fld]

MappingEq(ma, k1, k2) ==
    \A fld \in FileFields :
        Attribute_serialize(FileGet(ma, k1, fld))
            = Attribute_serialize(FileGet(ma, k2, fld))

\* == between two values an _attributes dict or a list can hold.
ValueEq(ma, x, y) ==
    IF IsMapping(x) /\ IsMapping(y) THEN MappingEq(ma, x[2], y[2]) ELSE x = y

\* MappingAttribute.deserialize: "none", "same" (an instance is returned as it
\* is), "new" (a dict builds a fresh instance) or "error".
MappingDeserializeKind(x) ==
    IF x = None THEN "none"
    ELSE IF IsMapping(x) THEN "same"
    ELSE IF IsDict(x) THEN "new"
    ELSE "error"

\* MappingAttribute.__init__(href=...) run for a fresh instance: each keyword
\* goes through Attribute.__set__ with the instance as owner.
FreshFile(x) == [fld \in FileFields |-> Attribute_deserialize(V(x[2]), TRUE)]

\* File(href=v): the user constructs a mapping value.
NewMapping(d) ==
    /\ mcount < MaxMappings
    /\ last' = Op("new", "map", M(mcount + 1), "none", d, TRUE)
    /\ result' = "ok"
    /\ calls' = <<>>
    /\ mcount' = mcount + 1
    /\ mattrs' = [mattrs EXCEPT ![mcount + 1] = FreshFile(d)]
    /\ UNCHANGED <<attrs, mowners, listVars, xyzVars>>

\* MappingAttribute.__set__(model_object, value, validate)
MapSet(o, f, x, validate, veto) ==
    /\ last' = Op("set", "map", o, f, x, validate)
    /\ UNCHANGED <<listVars, xyzVars>>
    /\ IF validate /\ RaiseIfImmutableOrReadonly(Schema[f], TRUE, attrs[o][f] # Unset)
       THEN /\ result' = "AttributeValidationError"
            /\ calls' = <<>>
            /\ UNCHANGED <<attrs, mapVars>>
       ELSE LET kind == MappingDeserializeKind(x)
            IN
            IF kind = "error"
            THEN /\ result' = "AttributeValidationError"
                 /\ calls' = <<>>
                 /\ UNCHANGED <<attrs, mapVars>>
            ELSE
            \* a dict needs room for the instance it builds
            /\ kind = "new" => mcount < MaxMappings
            /\ LET value == IF kind = "new" THEN M(mcount + 1) ELSE x
                   ma == IF kind = "new"
                         THEN [mattrs EXCEPT ![mcount + 1] = FreshFile(x)]
                         ELSE mattrs
                   previous_value ==
                       IF attrs[o][f] = Unset THEN None ELSE attrs[o][f]
                   changed == ~(attrs[o][f] # Unset
                                /\ ValueEq(ma, previous_value, value))
                   removed ==
                       IF previous_value # None
                       THEN [mowners EXCEPT ![previous_value[2]] =
                                RemoveModelObject(@, o)]
                       ELSE mowners
                   added ==
                       IF value # None
                       THEN [removed EXCEPT ![value[2]] =
                                AddModelObject(@, o, f)]
                       ELSE removed
               IN  /\ calls' = <<Call(o, f, changed, validate, veto)>>
                   /\ result' = IF veto THEN "CallbackError" ELSE "ok"
                   \* the instance built from a dict is dropped when the
                   \* callback raises: nothing refers to it
                   /\ mcount' = IF kind = "new" /\ ~veto THEN mcount + 1
                                ELSE mcount
                   /\ mattrs' = IF veto THEN mattrs ELSE ma
                   /\ mowners' = Committed(veto, added, mowners)
                   /\ attrs' = Committed(veto,
                                         [attrs EXCEPT ![o][f] = value], attrs)

\* MappingAttribute.__delete__(model_object, validate); the record keeps in
\* out the value the model object held before the call.
MapDelete(o, f, validate) ==
    /\ last' = [Op("delete", "map", o, f, None, validate)
                    EXCEPT !.out = IF attrs[o][f] = Unset THEN None
                                   ELSE attrs[o][f]]
    /\ calls' = <<>>
    /\ UNCHANGED <<mcount, mattrs, listVars, xyzVars>>
    /\ IF validate /\ RaiseIfImmutableOrReadonly(Schema[f], TRUE, attrs[o][f] # Unset)
       THEN /\ result' = "AttributeValidationError"
            /\ UNCHANGED <<attrs, mowners>>
       ELSE LET previous_value ==
                    IF attrs[o][f] = Unset THEN None ELSE attrs[o][f]
            IN  /\ result' = "ok"
                /\ attrs' = [attrs EXCEPT ![o][f] = Unset]
                /\ mowners' =
                       IF previous_value # None
                       THEN [mowners EXCEPT ![previous_value[2]] =
                                RemoveModelObject(@, o)]
                       ELSE mowners

\* m.fld = v on a mapping instance: Attribute.__set__ with the instance as
\* the owner, whose _set_modified forwards to the registered model objects.
\* The record keeps in i the number of the model object that deleted its
\* attribute holding the instance in the call before this one (0 when the
\* call before was no such delete).
FieldSet(k, fld, v, vetoers) ==
    /\ k \in 1..mcount
    /\ last' = [Op("set", "field", M(k), fld, v, TRUE) EXCEPT !.i =
                    IF /\ last.op = "delete" /\ last.kind = "map"
                       /\ result = "ok" /\ last.out = M(k)
                    THEN last.tgt[2] ELSE 0]
    /\ UNCHANGED <<attrs, mcount, mowners, listVars, xyzVars>>
    /\ IF RaiseIfImmutableOrReadonly(FileSchema[fld], TRUE,
                                     mattrs[k][fld] # Unset)
       THEN /\ result' = "AttributeValidationError"
            /\ calls' = <<>>
            /\ UNCHANGED mattrs
       ELSE LET value == Attribute_deserialize(v, TRUE)
                changed == ~(mattrs[k][fld] # Unset /\ mattrs[k][fld] = value)
                cs == SetModified(mowners[k], lowners, changed, TRUE, vetoers)
            IN  /\ calls' = cs
                /\ IF Raised(cs)
                   THEN /\ result' = "CallbackError"
                        /\ UNCHANGED mattrs
                   ELSE /\ result' = "ok"
                        /\ mattrs' = [mattrs EXCEPT ![k][fld] = value]


\* ---------------------------------------------------------------- ListAttribute

\* The list instances constructed so far.
Lists == {L(k) : k \in 1..lcount}

\* The flags a ListAttribute can be constructed with.
Mutable == [mutable |-> TRUE, readonly |-> FALSE]
Immutable == [mutable |-> FALSE, readonly |-> FALSE]
Readonly == [mutable |-> TRUE, readonly |-> TRUE]

\* A comparison of two lists that looks at their lengths only.
SeqEqByLen(ma, s, t) == Len(s) = Len(t)

\* items == other between two lists: same length and pairwise == items.
SeqEq(ma, s, t) ==
    /\ Len(s) = Len(t)
    /\ \A n \in 1..Len(s) : ValueEq(ma, s[n], t[n])

\* The mapping instances, their attributes and registries while the items of
\* a call are instantiated, with the items instantiated so far.
St0 == [mc |-> mcount, ma |-> mattrs, mo |-> mowners, items |-> <<>>,
        ok |-> TRUE]

\* _instantiate_item accepts a MappingAttribute or a dict; anything else
\* makes item_cls(**item) raise TypeError.
InstOk(x) == IsMapping(x) \/ IsDict(x)

\* ListAttribute._instantiate_item(item, add_model) of list k: a dict builds a
\* new File, and with add_model the list is registered as owner of the item.
Inst(st, k, x, add_model) ==
    LET id == IF IsMapping(x) THEN x[2] ELSE st.mc + 1
        ma == IF IsMapping(x) THEN st.ma
              ELSE [st.ma EXCEPT ![id] = FreshFile(x)]
        mo == IF add_model
              THEN [st.mo EXCEPT ![id] = AddModelObject(@, L(k), "none")]
              ELSE st.mo
    IN  [mc |-> IF IsMapping(x) THEN st.mc ELSE id, ma |-> ma, mo |-> mo,
         items |-> Append(st.items, M(id)), ok |-> TRUE]

RECURSIVE InstAll(_, _, _)
\* (self._instantiate_item(o) for o in other), consumed from the left until
\* an item fails.
InstAll(st, k, xs) ==
    IF xs = <<>> THEN st
    ELSE IF ~InstOk(Head(xs)) THEN [st EXCEPT !.ok = FALSE]
    ELSE InstAll(Inst(st, k, Head(xs), TRUE), k, Tail(xs))

\* Number of dicts among the items given: the instances they would build.
Dicts(xs) == Cardinality({n \in 1..Len(xs) : IsDict(xs[n])})

Room(xs) == mcount + Dicts(xs) <= MaxMappings

\* The registries once the instances built by a failed call are dropped: they
\* are referenced by nothing.
Kept(mo) == [j \in MapIds |-> IF j <= mcount THEN mo[j] ELSE <<>>]

RECURSIVE Deregister(_, _, _)
\* val._remove_model_object(self) for every val of the removed items.
Deregister(mo, k, removed) ==
    IF removed = <<>> THEN mo
    ELSE Deregister(
            [mo EXCEPT ![Head(removed)[2]] = RemoveModelObject(@, L(k))],
            k, Tail(removed))

\* Python's index handling: a negative index counts from the end.
NormIndex(i, n) == IF i < 0 THEN i + n ELSE i

Clamp(i, n) == IF i < 0 THEN 0 ELSE IF i > n THEN n ELSE i

Reverse(s) == [n \in 1..Len(s) |-> s[Len(s) + 1 - n]]

Slice(s, lo, hi) == SubSeq(s, lo + 1, hi)

\* The effect of a list method on everything but the model objects and the
\* list's own registry and flags.
ListOutcome(op, k, res, cs, items, mc, ma, mo) ==
    /\ last' = op
    /\ result' = res
    /\ calls' = cs
    /\ litems' = [litems EXCEPT ![k] = items]
    /\ mcount' = mc
    /\ mattrs' = ma
    /\ mowners' = mo
    /\ UNCHANGED <<attrs, lcount, lowners, lflags, xyzVars>>

\* The method raised and left everything as it was.
ListRaises(op, k, res, cs) ==
    ListOutcome(op, k, res, cs, litems[k], mcount, mattrs, mowners)

\* self._raise_if_immutable_or_readonly(operation=...) of a list method.
ListPolicy(k) == RaiseIfImmutableOrReadonly(lflags[k], FALSE, FALSE)

\* ListAttribute._set_modified(changed=...) of list k.
ListNotify(k, changed, vetoers) ==
    SetModified(lowners[k], lowners, changed, TRUE, vetoers)

\* ListAttribute(File, items=xs, **flags): the user constructs a list value.
NewList(flags, xs) ==
    /\ lcount < MaxLists
    /\ Room(xs)
    /\ LET k == lcount + 1
           st == InstAll(St0, k, xs)
       IN  /\ last' = ListOp("new", k, None, 0)
           /\ result' = "ok"
           /\ calls' = <<>>
           /\ lcount' = k
           /\ litems' = [litems EXCEPT ![k] = st.items]
           /\ lflags' = [lflags EXCEPT ![k] = flags]
           /\ mcount' = st.mc
           /\ mattrs' = st.ma
           /\ mowners' = st.mo
           /\ UNCHANGED <<attrs, lowners, xyzVars>>

\* ListAttribute.deserialize: "none", "same" (a ListAttribute is returned as
\* it is), "new" (a list builds a fresh ListAttribute) or "error".
ListDeserializeKind(x) ==
    IF x = None THEN "none"
    ELSE IF IsList(x) THEN "same"
    ELSE IF x[1] = "list" THEN "new"
    ELSE "error"

\* The plain list [{"href": v1}, ...] of n dicts.
PlainList(n) == <<"list", n>>

PlainItems(x) == [n \in 1..x[2] |-> D(n)]

\* ListAttribute.__set__(model_object, value, validate)
ListSet(o, f, x, validate, veto) ==
    /\ last' = Op("set", "listattr", o, f, x, validate)
    /\ IF validate /\ RaiseIfImmutableOrReadonly(Schema[f], TRUE, attrs[o][f] # Unset)
       THEN /\ result' = "AttributeValidationError"
            /\ calls' = <<>>
            /\ UNCHANGED <<attrs, mapVars, listVars, xyzVars>>
       ELSE LET kind == ListDeserializeKind(x)
            IN
            IF kind = "error"
            THEN /\ result' = "AttributeValidationError"
                 /\ calls' = <<>>
                 /\ UNCHANGED <<attrs, mapVars, listVars, xyzVars>>
            ELSE
            \* a plain list needs room for the list and the items it builds
            /\ kind = "new" => lcount < MaxLists /\ Room(PlainItems(x))
            /\ LET k == lcount + 1
                   st == IF kind = "new" THEN InstAll(St0, k, PlainItems(x))
                         ELSE St0
                   value == IF kind = "new" THEN L(k) ELSE x
                   li == IF kind = "new"
                         THEN [litems EXCEPT ![k] = st.items]
                         ELSE litems
                   previous_value ==
                       IF attrs[o][f] = Unset THEN None ELSE attrs[o][f]
                   changed ==
                       ~(/\ attrs[o][f] # Unset
                         /\ IF IsList(previous_value) /\ IsList(value)
                            THEN \/ previous_value = value
                                 \/ SeqEq(st.ma, litems[previous_value[2]],
                                          li[value[2]])
                            ELSE previous_value = value)
                   removed ==
                       IF previous_value # None
                       THEN [lowners EXCEPT ![previous_value[2]] =
                                RemoveModelObject(@, o)]
                       ELSE lowners
                   added ==
                       IF value # None
                       THEN [removed EXCEPT ![value[2]] =
                                AddModelObject(@, o, f)]
                       ELSE removed
               IN  /\ calls' = <<Call(o, f, changed, validate, veto)>>
                   /\ result' = IF veto THEN "CallbackError" ELSE "ok"
                   \* the list built from a plain list, and its items, are
                   \* dropped when the callback raises: nothing refers to
                   \* them
                   /\ lcount' = IF kind = "new" /\ ~veto THEN k ELSE lcount
                   /\ litems' = IF veto THEN litems ELSE li
                   /\ lflags' = IF kind = "new" /\ ~veto
                                THEN [lflags EXCEPT ![k] = Schema[f]]
                                ELSE lflags
                   /\ mcount' = IF veto THEN mcount ELSE st.mc
                   /\ mattrs' = IF veto THEN mattrs ELSE st.ma
                   /\ mowners' = IF veto THEN mowners ELSE st.mo
                   /\ lowners' = Committed(veto, added, lowners)
                   /\ attrs' = Committed(veto,
                                         [attrs EXCEPT ![o][f] = value], attrs)
                   /\ UNCHANGED xyzVars

\* ListAttribute.__delete__(model_object, validate); the record keeps in out
\* the value the model object held before the call.
ListDelete(o, f, validate) ==
    /\ last' = [Op("delete", "listattr", o, f, None, validate)
                    EXCEPT !.out = IF attrs[o][f] = Unset THEN None
                                   ELSE attrs[o][f]]
    /\ calls' = <<>>
    /\ UNCHANGED <<mapVars, lcount, litems, lflags, xyzVars>>
    /\ IF validate /\ RaiseIfImmutableOrReadonly(Schema[f], TRUE, attrs[o][f] # Unset)
       THEN /\ result' = "AttributeValidationError"
            /\ UNCHANGED <<attrs, lowners>>
       ELSE LET previous_value ==
                    IF attrs[o][f] = Unset THEN None ELSE attrs[o][f]
            IN  /\ result' = "ok"
                /\ attrs' = [attrs EXCEPT ![o][f] = Unset]
                /\ lowners' =
                       IF previous_value # None
                       THEN [lowners EXCEPT ![previous_value[2]] =
                                RemoveModelObject(@, o)]
                       ELSE lowners

\* ListAttribute.append(item)
ListAppend(k, x, vetoers) ==
    /\ k \in 1..lcount
    /\ Len(litems[k]) < MaxLen
    /\ Room(<<x>>)
    /\ LET op == ListOp("append", k, x, 0)
       IN
       IF ListPolicy(k)
       THEN ListRaises(op, k, "AttributeValidationError", <<>>)
       ELSE IF ~InstOk(x)
       THEN ListRaises(op, k, "TypeError", <<>>)
       ELSE LET st == Inst(St0, k, x, TRUE)
                cs == ListNotify(k, TRUE, vetoers)
            IN  IF Raised(cs)
                THEN ListOutcome(op, k, "CallbackError", cs, litems[k],
                                 mcount, mattrs, Kept(st.mo))
                ELSE ListOutcome(op, k, "ok", cs,
                                 litems[k] \o st.items, st.mc, st.ma, st.mo)

\* The record of a successful pop: f tells whether the call before it was a
\* successful append to the same list.
PopOp(k, popped, i) ==
    [ListOp("pop", k, popped, i) EXCEPT !.f =
        IF last.op = "append" /\ last.tgt = L(k) /\ result = "ok"
        THEN "after-append" ELSE "none"]

\* ListAttribute.pop(index)
ListPop(k, i, vetoers) ==
    /\ k \in 1..lcount
    /\ LET n == Len(litems[k])
           at == NormIndex(i, n)
           cs == ListNotify(k, TRUE, vetoers)
       IN
       IF ListPolicy(k)
       THEN ListRaises(ListOp("pop", k, None, i), k,
                       "AttributeValidationError", <<>>)
       ELSE IF Raised(cs)
       THEN ListRaises(ListOp("pop", k, None, i), k, "CallbackError", cs)
       ELSE IF at < 0 \/ at >= n
       THEN ListRaises(ListOp("pop", k, None, i), k, "IndexError", cs)
       ELSE LET popped == litems[k][at + 1]
            IN  ListOutcome(PopOp(k, popped, i), k, "ok", cs,
                            Slice(litems[k], 0, at) \o Slice(litems[k], at + 1, n),
                            mcount, mattrs,
                            Deregister(mowners, k, <<popped>>))

\* ListAttribute.reverse()
ListReverse(k, vetoers) ==
    /\ k \in 1..lcount
    /\ LET op == ListOp("reverse", k, None, 0)
           new_items == Reverse(litems[k])
           cs == ListNotify(k, ~SeqEq(mattrs, litems[k], new_items), vetoers)
       IN
       IF ListPolicy(k)
       THEN ListRaises(op, k, "AttributeValidationError", <<>>)
       ELSE IF Raised(cs)
       THEN ListRaises(op, k, "CallbackError", cs)
       ELSE ListOutcome(op, k, "ok", cs, new_items, mcount, mattrs, mowners)

\* The removal shared by __delitem__ (an index or a slice) and clear: the
\* items in [lo, hi) are deregistered first, then the owners are notified,
\* then the items are replaced.
DelRange(op, k, lo, hi, before, vetoers) ==
    LET n == Len(litems[k])
        previous_value == Slice(litems[k], lo, hi)
        mo == Deregister(mowners, k, previous_value)
        new_items == Slice(litems[k], 0, lo) \o Slice(litems[k], hi, n)
        cs == ListNotify(k, ~SeqEq(mattrs, litems[k], new_items), vetoers)
    IN  IF Raised(cs)
        THEN ListOutcome(op, k, "CallbackError", before \o cs, litems[k],
                         mcount, mattrs, mo)
        ELSE ListOutcome(op, k, "ok", before \o cs, new_items,
                         mcount, mattrs, mo)

\* ListAttribute.clear(): notifies, then runs del self[:].
ListClear(k, vetoers) ==
    /\ k \in 1..lcount
    /\ LET op == ListOp("clear", k, None, 0)
           cs == ListNotify(k, litems[k] # <<>>, vetoers)
       IN
       IF ListPolicy(k)
       THEN ListRaises(op, k, "AttributeValidationError", <<>>)
       ELSE IF Raised(cs)
       THEN ListRaises(op, k, "CallbackError", cs)
       ELSE DelRange(op, k, 0, Len(litems[k]), cs, vetoers)

\* ListAttribute.__delitem__(n) for an index
ListDelItem(k, i, vetoers) ==
    /\ k \in 1..lcount
    /\ LET op == ListOp("delitem", k, None, 0)
           n == Len(litems[k])
           at == NormIndex(i, n)
       IN
       IF ListPolicy(k)
       THEN ListRaises(op, k, "AttributeValidationError", <<>>)
       ELSE IF at < 0 \/ at >= n
       THEN ListRaises(op, k, "IndexError", <<>>)
       ELSE DelRange(op, k, at, at + 1, <<>>, vetoers)

\* ListAttribute.__delitem__(slice(lo, hi))
ListDelSlice(k, lo, hi, vetoers) ==
    /\ k \in 1..lcount
    /\ lo <= hi
    /\ LET op == ListOp("delslice", k, None, 0)
           n == Len(litems[k])
       IN
       IF ListPolicy(k)
       THEN ListRaises(op, k, "AttributeValidationError", <<>>)
       ELSE DelRange(op, k, Clamp(lo, n), Clamp(hi, n), <<>>, vetoers)

\* The growth shared by extend and __iadd__: the owners are notified, then
\* list.extend consumes the generator, appending item by item until one
\* fails to instantiate.
ExtendWith(op, k, xs, changed, vetoers) ==
    LET cs == ListNotify(k, changed, vetoers)
        st == InstAll(St0, k, xs)
    IN  IF ListPolicy(k)
        THEN ListRaises(op, k, "AttributeValidationError", <<>>)
        ELSE IF Raised(cs)
        THEN ListRaises(op, k, "CallbackError", cs)
        ELSE ListOutcome(op, k, IF st.ok THEN "ok" ELSE "TypeError", cs,
                         litems[k] \o st.items, st.mc, st.ma, st.mo)

\* ListAttribute.extend(other)
ListExtend(k, xs, vetoers) ==
    /\ k \in 1..lcount
    /\ Len(litems[k]) + Len(xs) <= MaxLen
    /\ Room(xs)
    /\ ExtendWith(ListOp("extend", k, None, 0), k, xs, TRUE, vetoers)

\* ListAttribute.__iadd__(other)
ListIAdd(k, xs, vetoers) ==
    /\ k \in 1..lcount
    /\ Len(litems[k]) + Len(xs) <= MaxLen
    /\ Room(xs)
    /\ ExtendWith(ListOp("iadd", k, None, 0), k, xs, xs # <<>>, vetoers)

RECURSIVE Repeat(_, _)
Repeat(s, n) == IF n <= 0 THEN <<>> ELSE s \o Repeat(s, n - 1)

\* ListAttribute.__imul__(other)
ListIMul(k, n, vetoers) ==
    /\ k \in 1..lcount
    /\ Len(litems[k]) * n <= MaxLen
    /\ LET op == ListOp("imul", k, None, 0)
           cs == ListNotify(k, litems[k] # <<>> /\ n # 1, vetoers)
       IN
       IF ListPolicy(k)
       THEN ListRaises(op, k, "AttributeValidationError", <<>>)
       ELSE IF Raised(cs)
       THEN ListRaises(op, k, "CallbackError", cs)
       ELSE ListOutcome(op, k, "ok", cs, Repeat(litems[k], n),
                        mcount, mattrs, mowners)

\* ListAttribute.insert(index, value)
ListInsert(k, i, x, vetoers) ==
    /\ k \in 1..lcount
    /\ Len(litems[k]) < MaxLen
    /\ Room(<<x>>)
    /\ LET op == ListOp("insert", k, None, 0)
           n == Len(litems[k])
           at == Clamp(NormIndex(i, n), n)
       IN
       IF ListPolicy(k)
       THEN ListRaises(op, k, "AttributeValidationError", <<>>)
       ELSE IF ~InstOk(x)
       THEN ListRaises(op, k, "TypeError", <<>>)
       ELSE LET st == Inst(St0, k, x, TRUE)
                cs == ListNotify(k, TRUE, vetoers)
            IN  IF Raised(cs)
                THEN ListOutcome(op, k, "CallbackError", cs, litems[k],
                                 mcount, mattrs, Kept(st.mo))
                ELSE ListOutcome(op, k, "ok", cs,
                                 Slice(litems[k], 0, at) \o st.items
                                    \o Slice(litems[k], at, n),
                                 st.mc, st.ma, st.mo)

\* list.index: the first position whose item == value, 0 when there is none.
FirstIndex(ma, items, value) ==
    IF \E n \in 1..Len(items) : ValueEq(ma, items[n], value)
    THEN CHOOSE n \in 1..Len(items) :
            /\ ValueEq(ma, items[n], value)
            /\ \A m \in 1..(n - 1) : ~ValueEq(ma, items[m], value)
    ELSE 0

\* ListAttribute.remove(value): self.index(value) instantiates the value
\* (registering the list as its owner), then self.pop(index=i).
ListRemove(k, x, vetoers) ==
    /\ k \in 1..lcount
    /\ Room(<<x>>)
    /\ LET op == ListOp("remove", k, None, 0)
       IN
       IF ListPolicy(k)
       THEN ListRaises(op, k, "AttributeValidationError", <<>>)
       ELSE IF ~InstOk(x)
       THEN ListRaises(op, k, "TypeError", <<>>)
       ELSE LET st == Inst(St0, k, x, TRUE)
                at == FirstIndex(st.ma, litems[k], st.items[1])
                cs == ListNotify(k, TRUE, vetoers)
                n == Len(litems[k])
            IN  IF at = 0
                THEN ListOutcome(op, k, "ValueError", <<>>, litems[k],
                                 mcount, mattrs, Kept(st.mo))
                ELSE IF Raised(cs)
                THEN ListOutcome(op, k, "CallbackError", cs, litems[k],
                                 mcount, mattrs, Kept(st.mo))
                ELSE ListOutcome(op, k, "ok", cs,
                                 Slice(litems[k], 0, at - 1)
                                    \o Slice(litems[k], at, n),
                                 mcount, mattrs,
                                 Deregister(Kept(st.mo), k,
                                            <<litems[k][at]>>))

\* The outcome of a list method that returns a value: the items, the
\* instances and the flags stay, the registries become mo.
ListReturns(op, k, res, out, mo) ==
    ListOutcome([op EXCEPT !.kind = "listread", !.out = out], k, res, <<>>,
                litems[k],
                mcount, mattrs, mo)

\* ListAttribute.count(value): the value is instantiated without
\* registering the list, then counted among the items.
ListCount(k, x) ==
    /\ k \in 1..lcount
    /\ Room(<<x>>)
    /\ LET op == ListOp("count", k, x, 0)
       IN  IF ~InstOk(x)
           THEN ListReturns(op, k, "TypeError", None, mowners)
           ELSE LET st == Inst(St0, k, x, FALSE)
                    hits == {n \in 1..Len(litems[k]) :
                                ValueEq(st.ma, litems[k][n], st.items[1])}
                IN  ListReturns(op, k, "ok", <<"int", Cardinality(hits)>>,
                                Kept(st.mo))

\* ListAttribute.index(value): the value is instantiated with the default
\* add_model=True, then looked for among the items.
ListIndex(k, x) ==
    /\ k \in 1..lcount
    /\ Room(<<x>>)
    /\ LET op == ListOp("index", k, x, 0)
       IN  IF ~InstOk(x)
           THEN ListReturns(op, k, "TypeError", None, mowners)
           ELSE LET st == Inst(St0, k, x, TRUE)
                    at == FirstIndex(st.ma, litems[k], st.items[1])
                IN  IF at = 0
                    THEN ListReturns(op, k, "ValueError", None, Kept(st.mo))
                    ELSE ListReturns(op, k, "ok", <<"int", at - 1>>,
                                     Kept(st.mo))

\* ListAttribute.__contains__(value): as index, returning a boolean.
ListContains(k, x) ==
    /\ k \in 1..lcount
    /\ Room(<<x>>)
    /\ LET op == ListOp("contains", k, x, 0)
       IN  IF ~InstOk(x)
           THEN ListReturns(op, k, "TypeError", None, mowners)
           ELSE LET st == Inst(St0, k, x, TRUE)
                    at == FirstIndex(st.ma, litems[k], st.items[1])
                IN  ListReturns(op, k, "ok", Bool(at # 0), Kept(st.mo))

\* ListAttribute.__add__(other) with a list: every item of other is
\* instantiated without registering the list and a plain list of the items
\* followed by them is returned (the record keeps its length).
ListConcat(k, xs) ==
    /\ k \in 1..lcount
    /\ Room(xs)
    /\ LET op == ListOp("add", k, None, Len(xs))
       IN  IF \E n \in 1..Len(xs) : ~InstOk(xs[n])
           THEN ListReturns(op, k, "TypeError", None, mowners)
           ELSE ListReturns(op, k, "ok",
                            <<"int", Len(litems[k]) + Len(xs)>>, mowners)

\* ListAttribute.__getitem__(n) for an index
ListGetItem(k, i) ==
    /\ k \in 1..lcount
    /\ LET op == ListOp("getitem", k, None, i)
           at == NormIndex(i, Len(litems[k]))
       IN  IF at < 0 \/ at >= Len(litems[k])
           THEN ListReturns(op, k, "IndexError", None, mowners)
           ELSE ListReturns(op, k, "ok", litems[k][at + 1], mowners)

\* ListAttribute.__len__()
ListLen(k) ==
    /\ k \in 1..lcount
    /\ ListReturns(ListOp("len", k, None, 0), k, "ok",
                   <<"int", Len(litems[k])>>, mowners)

\* ListAttribute.serialize(values) of the items of a list of File: the
\* serialized items in order, each the attributes of the File (a File
\* attribute serializes as itself).
SerializedItems(ma, items) ==
    [n \in 1..Len(items) |->
        [fld \in FileFields |-> Attribute_serialize(ma[items[n][2]][fld])]]

\* The key the caller sorts File items by: the number of the href value, 0
\* when there is none.
SortKey(ma, item) ==
    IF ma[item[2]]["href"][1] = "v" THEN ma[item[2]]["href"][2] ELSE 0

\* list.sort(key=..., reverse=...): stable, and stable in reverse too.
Sorted(ma, items, reverse) ==
    LET key(n) == IF reverse THEN 0 - SortKey(ma, items[n])
                  ELSE SortKey(ma, items[n])
        rank(n) == 1 + Cardinality({m \in 1..Len(items) :
                        \/ key(m) < key(n)
                        \/ (key(m) = key(n) /\ m < n)})
    IN  [r \in 1..Len(items) |->
            items[CHOOSE n \in 1..Len(items) : rank(n) = r]]

\* ListAttribute.sort(key, reverse)
ListSort(k, reverse, vetoers) ==
    /\ k \in 1..lcount
    /\ LET op == ListOp("sort", k, None, 0)
           new_items == Sorted(mattrs, litems[k], reverse)
           cs == ListNotify(k, ~SeqEq(mattrs, litems[k], new_items), vetoers)
       IN
       IF ListPolicy(k)
       THEN ListRaises(op, k, "AttributeValidationError", <<>>)
       ELSE IF Raised(cs)
       THEN ListRaises(op, k, "CallbackError", cs)
       ELSE ListOutcome(op, k, "ok", cs, new_items, mcount, mattrs, mowners)

\* ListAttribute.__setitem__(n, item) for an index
ListSetItem(k, i, x, vetoers) ==
    /\ k \in 1..lcount
    /\ Room(<<x>>)
    /\ LET op == ListOp("setitem", k, None, 0)
           n == Len(litems[k])
           at == NormIndex(i, n)
       IN
       IF ListPolicy(k)
       THEN ListRaises(op, k, "AttributeValidationError", <<>>)
       ELSE IF at < 0 \/ at >= n
       THEN ListRaises(op, k, "IndexError", <<>>)
       ELSE IF ~InstOk(x)
       THEN ListRaises(op, k, "TypeError", <<>>)
       ELSE LET previous_value == litems[k][at + 1]
                st == Inst(St0, k, x, TRUE)
                new_item == st.items[1]
                cs == ListNotify(k, ~ValueEq(st.ma, previous_value, new_item),
                                 vetoers)
            IN  IF Raised(cs)
                THEN ListOutcome(op, k, "CallbackError", cs, litems[k],
                                 mcount, mattrs, Kept(st.mo))
                ELSE ListOutcome(op, k, "ok", cs,
                                 [litems[k] EXCEPT ![at + 1] = new_item],
                                 st.mc, st.ma,
                                 Deregister(st.mo, k, <<previous_value>>))

\* ListAttribute.__setitem__(slice(lo, hi), items)
ListSetSlice(k, lo, hi, xs, vetoers) ==
    /\ k \in 1..lcount
    /\ lo <= hi
    /\ Room(xs)
    /\ LET op == ListOp("setslice", k, None, 0)
           n == Len(litems[k])
           from == Clamp(lo, n)
           to == Clamp(hi, n)
           previous_value == Slice(litems[k], from, to)
           st == InstAll(St0, k, xs)
           cs == ListNotify(k, ~SeqEq(st.ma, previous_value, st.items),
                            vetoers)
       IN
       /\ n - (to - from) + Len(xs) <= MaxLen
       /\ IF ListPolicy(k)
          THEN ListRaises(op, k, "AttributeValidationError", <<>>)
          ELSE IF ~st.ok
          THEN ListOutcome(op, k, "TypeError", <<>>, litems[k],
                           mcount, mattrs, Kept(st.mo))
          ELSE IF Raised(cs)
          THEN ListOutcome(op, k, "CallbackError", cs, litems[k],
                           mcount, mattrs, Kept(st.mo))
          ELSE ListOutcome(op, k, "ok", cs,
                           Slice(litems[k], 0, from) \o st.items
                              \o Slice(litems[k], to, n),
                           st.mc, st.ma,
                           Deregister(st.mo, k, previous_value))

\* ---------------------------------------------------------------- specifications

\* Plain attributes of different model objects do not interact: one object.
AttrOwners == {O(1)}

NextAttr ==
    \/ \E o \in AttrOwners, f \in AttrFields, v \in Vals \cup {None},
          validate \in BOOLEAN, veto \in BOOLEAN :
            AttrSet(o, f, v, validate, veto)
    \/ \E o \in AttrOwners, f \in AttrFields, validate \in BOOLEAN :
            AttrDelete(o, f, validate)

SpecAttr == Init /\ [][NextAttr]_vars

MapInputs == {None, Bad, D(1)} \cup Mappings

\* The mapping-typed slots: model object 1 is of a class that declares
\* `field` and `field2`, model object 2 of a class that declares `field2`.
MapSlots == {<<O(1), "field">>, <<O(1), "field2">>, <<O(2), "field2">>}

NextMap ==
    \/ \E d \in {D(1), D(2)} : NewMapping(d)
    \/ \E s \in MapSlots, x \in MapInputs,
          validate \in BOOLEAN, veto \in BOOLEAN :
            MapSet(s[1], s[2], x, validate, veto)
    \/ \E s \in MapSlots, validate \in BOOLEAN :
            MapDelete(s[1], s[2], validate)
    \/ \E k \in MapIds, fld \in FileFields, v \in Vals,
          vetoers \in SUBSET Owners :
            FieldSet(k, fld, v, vetoers)

SpecMap == Init /\ [][NextMap]_vars

ListFlags == {Mutable, Immutable, Readonly}

\* Items given to the list methods: an existing instance, a dict, or a value
\* that is neither.
ItemInputs == Mappings \cup {D(1), Bad}

Indexes == -1..(MaxLen - 2)

\* The iterables given to extend, += and slice assignment: up to two items,
\* the second one an existing instance or a value that fails to instantiate.
ItemSeqs ==
    {<<>>} \cup {<<x>> : x \in ItemInputs}
           \cup {<<x, y>> : x \in Mappings \cup {D(1)},
                            y \in (Mappings \cap {M(1)}) \cup {Bad}}

\* The slices [lo:hi] given to slice assignment and deletion.
Slices == {<<0, 1>>, <<1, 2>>, <<0, MaxLen>>}

\* The model objects whose callback raises during a list method: none, or
\* the model object that holds the list.
ListVetoes == {{}, {O(1)}}

\* The list methods are checked on lists held by one model object.
ListSlots == {<<O(1), "files">>}

NextList ==
    \/ \E d \in {D(1), D(2)} : NewMapping(d)
    \/ \E flags \in ListFlags, n \in 0..2 : NewList(flags, PlainItems(PlainList(n)))
    \/ \E s \in ListSlots, x \in Lists, veto \in BOOLEAN :
            ListSet(s[1], s[2], x, TRUE, veto)
    \/ \E k \in ListIds, x \in ItemInputs, vetoers \in ListVetoes :
            ListAppend(k, x, vetoers)
    \/ \E k \in ListIds, i \in Indexes, vetoers \in ListVetoes :
            ListPop(k, i, vetoers)
    \/ \E k \in ListIds, vetoers \in ListVetoes : ListReverse(k, vetoers)
    \/ \E k \in ListIds, vetoers \in ListVetoes : ListClear(k, vetoers)
    \/ \E k \in ListIds, i \in Indexes, vetoers \in ListVetoes :
            ListDelItem(k, i, vetoers)
    \/ \E k \in ListIds, sl \in Slices, vetoers \in ListVetoes :
            ListDelSlice(k, sl[1], sl[2], vetoers)
    \/ \E k \in ListIds, xs \in ItemSeqs, vetoers \in ListVetoes :
            ListExtend(k, xs, vetoers)
    \/ \E k \in ListIds, xs \in ItemSeqs, vetoers \in ListVetoes :
            ListIAdd(k, xs, vetoers)
    \/ \E k \in ListIds, n \in -1..2, vetoers \in ListVetoes :
            ListIMul(k, n, vetoers)
    \/ \E k \in ListIds, i \in Indexes, x \in ItemInputs,
          vetoers \in ListVetoes :
            ListInsert(k, i, x, vetoers)
    \/ \E k \in ListIds, x \in ItemInputs, vetoers \in ListVetoes :
            ListRemove(k, x, vetoers)
    \/ \E k \in ListIds, reverse \in BOOLEAN, vetoers \in ListVetoes :
            ListSort(k, reverse, vetoers)
    \/ \E k \in ListIds, i \in Indexes, x \in ItemInputs,
          vetoers \in ListVetoes :
            ListSetItem(k, i, x, vetoers)
    \/ \E k \in ListIds, sl \in Slices, xs \in ItemSeqs,
          vetoers \in ListVetoes :
            ListSetSlice(k, sl[1], sl[2], xs, vetoers)

SpecList == Init /\ [][NextList]_vars

\* A reference and its shadow id on one model object: the reference is read
\* and set, and the shadow id is set directly.
RefInputs == {None, V(1)} \cup {C(k) : k \in 1..4}
RefVetoes == {"none", "first", "second"}

NextRef ==
    \/ \E f \in RefFields, found \in BOOLEAN : RefGet(O(1), f, found)
    \/ \E f \in RefFields, x \in RefInputs, validate \in BOOLEAN,
          veto \in RefVetoes, eq \in BOOLEAN :
            RefSet(O(1), f, x, validate, veto, eq)
    \/ \E f \in IdFields, v \in Vals \cup {None}, validate \in BOOLEAN :
            AttrSet(O(1), f, v, validate, FALSE)

SpecRef == Init /\ [][NextRef]_vars

\* An enum attribute of one model object, set and deserialized with members,
\* their string values, another string and None.
EnumInputs == EnumMembers \cup {V(1), V(2), V(3), None}

NextEnum ==
    \/ \E v \in EnumInputs, validate \in BOOLEAN :
            EnumDeserialize(v, validate)
    \/ \E v \in EnumInputs, validate \in BOOLEAN, veto \in BOOLEAN :
            EnumSet(O(1), "unit", v, validate, veto)

SpecEnum == Init /\ [][NextEnum]_vars

\* The values given to the conversions: datetimes, timestamp strings of each
\* shape, a string of another shape, None and a number.
Seconds == {1, 2}
Datetimes == {Dt(t, us, tz) : t \in Seconds, us \in {0, 5},
                              tz \in {"naive", "utc"}}
Fractions == {<<0, 0>>, <<3, 0>>, <<6, 0>>, <<6, 5000>>, <<9, 0>>,
              <<9, 5000>>, <<9, 5001>>, <<7, 5900>>, <<8, 5990>>,
              <<9, 5999>>}
Strings == {Str(t, fr[2], sfx, fr[1]) : t \in Seconds, fr \in Fractions,
                                        sfx \in {"Z", "+00:00", ""}}
                \cup {Garbage}
TimestampInputs == Datetimes \cup Strings \cup {None, V(1)}

\* The values a field of a mapping class can hold, and the _attributes dicts
\* of its instances: any subset of the fields is set.
FieldValues(name) ==
    IF name = "flag" THEN {PyFalse, PyTrue}
    ELSE IF name = "note" THEN {V(1)} ELSE {None, V(1)}

AttrDicts(cls) ==
    UNION {{a \in [S -> {None, V(1), PyFalse, PyTrue}] :
                \A name \in S : a[name] \in FieldValues(name)}
           : S \in SUBSET ClassFields(cls)}

Instances(cls, id, owners) ==
    {Instance(cls, id, a, owners) : a \in AttrDicts(cls)}

\* The canonical values of each kind of attribute: a value of a type is
\* <<"one", type>>, a list of such values <<"list", type>>.
Canonical(kind) ==
    IF kind[1] = "list"
    THEN IF kind[2] = "timestamp"
         THEN {ListValue(1, <<d>>) : d \in {Dt(1, 0, "utc"), Dt(1, 5, "utc")}}
         ELSE {ListValue(1, <<>>)} \cup
              {ListValue(1, <<x>>) : x \in Instances("MyMapping", 1, {})}
    ELSE IF kind[2] = "timestamp"
         THEN {d \in Datetimes : d[4] = "utc"}
    ELSE IF kind[2] = "enum" THEN {V(1), V(2)}
    ELSE IF kind[2] = "boolean" THEN {PyFalse, PyTrue}
    ELSE IF kind[2] = "mapping" THEN Instances("MyMapping", 1, {})
    ELSE {V(1), V(2)}

Kinds == {<<"one", t>> : t \in {"attribute", "timestamp", "enum", "boolean",
                                "mapping"}}
            \cup {<<"list", "mapping">>, <<"list", "timestamp">>}

NextValues ==
    \/ \E v \in TimestampInputs, validate \in BOOLEAN :
            TimestampDeserialize(v, validate)
    \/ \E date_str \in Strings : ParseIsoDatetime(date_str)
    \/ \E kind \in Kinds, validate \in BOOLEAN :
         \E v \in Canonical(kind) \cup {None} : RoundTrip(kind, v, validate)

SpecValues == Init /\ [][NextValues]_vars

\* Mapping instances of the three classes compared with each other and with
\* themselves (the second instance has another identity and an owner), and
\* values of every shape given to deserialize.
LeftInstances == UNION {Instances(cls, 1, {}) : cls \in Classes}
RightInstances == UNION {Instances(cls, 2, {O(1)}) : cls \in Classes}
DeserializeInputs ==
    {None, V(1), PlainValue(<<>>)} \cup LeftInstances
        \cup {Dict(a) : a \in AttrDicts("File") \cup AttrDicts("MyMapping")}

NextMapValues ==
    \/ \E x \in LeftInstances :
          \E y \in RightInstances \cup {x} : Equals(x, y)
    \/ \E cls \in {"File", "MyMapping"}, values \in DeserializeInputs,
          validate \in BOOLEAN :
            MappingDeserialize(cls, values, validate)
    \/ \E cls \in {"File", "MyMapping"},
          x \in DeserializeInputs \ {V(1), PlainValue(<<>>)} :
            MappingSerialize(cls, x)

SpecMapValues == Init /\ [][NextMapValues]_vars

\* The classes a class statement can name as bases, each built by its own
\* class statement: class 1 declares a reference x, class 2 attributes x and
\* y, class 3 an attribute y with _no_inherit, class 4 is a subclass of 1
\* that declares x again as an attribute, class 5 a subclass of 1 that
\* declares nothing and sets _no_inherit, class 6 is a plain class and class
\* 7 declares a reference y.
BaseClass(c) ==
    IF c = 1 THEN Meta_new(<<<<"x", Ref(1, "x")>>>>, <<>>, FALSE)
    ELSE IF c = 2
    THEN Meta_new(<<<<"x", Attr(2, "x")>>, <<"y", Attr(2, "y")>>>>, <<>>,
                  FALSE)
    ELSE IF c = 3 THEN Meta_new(<<<<"y", Attr(3, "y")>>>>, <<>>, TRUE)
    ELSE IF c = 4
    THEN Meta_new(<<<<"x", Attr(4, "x")>>>>,
                  <<Meta_new(<<<<"x", Ref(1, "x")>>>>, <<>>, FALSE)>>, FALSE)
    ELSE IF c = 5
    THEN Meta_new(<<>>, <<Meta_new(<<<<"x", Ref(1, "x")>>>>, <<>>, FALSE)>>,
                  TRUE)
    ELSE IF c = 6 THEN PlainClass
    ELSE Meta_new(<<<<"y", Ref(7, "y")>>>>, <<>>, FALSE)

BaseIds == 1..7

\* The lists of bases: none, one or two different classes; a class is not
\* listed before its own subclass (Python finds no method resolution order
\* for such a list and builds no class).
BaseLists ==
    ({<<>>} \cup {<<BaseClass(c)>> : c \in BaseIds}
            \cup {<<BaseClass(p[1]), BaseClass(p[2])>> :
                     p \in {q \in BaseIds \X BaseIds : q[1] # q[2]}})
        \ {<<BaseClass(1), BaseClass(d)>> : d \in {4, 5}}

\* The bodies of the class being built (class 0): x is absent, an Attribute,
\* a CatalogObjectReference or something that is no Attribute; y is absent
\* or an Attribute.
Bodies ==
    {bx \o by : bx \in {<<>>, <<<<"x", Attr(0, "x")>>>>,
                        <<<<"x", Ref(0, "x")>>>>, <<<<"x", Other(0, "x")>>>>},
                by \in {<<>>, <<<<"y", Attr(0, "y")>>>>}}

NextMeta ==
    \E body \in Bodies, bases \in BaseLists, no_inherit \in BOOLEAN :
        ClassNew(body, bases, no_inherit)

SpecMeta == Init /\ [][NextMeta]_vars

\* Mapping and list values attached to and detached from two model objects
\* and mutated in between: model object 1 holds them under `field` and
\* `files`, model object 2 under `field2` and `files`.
DetachMapSlots == {<<O(1), "field">>, <<O(2), "field2">>}
DetachListSlots == {<<O(1), "files">>, <<O(2), "files">>}

NextDetach ==
    \/ NewMapping(D(1))
    \/ NewList(Mutable, <<>>)
    \/ \E s \in DetachMapSlots, x \in {None} \cup Mappings, veto \in BOOLEAN :
            MapSet(s[1], s[2], x, TRUE, veto)
    \/ \E s \in DetachMapSlots : MapDelete(s[1], s[2], TRUE)
    \/ \E k \in MapIds, v \in Vals : FieldSet(k, "href", v, {})
    \/ \E s \in DetachListSlots, x \in {None} \cup Lists, veto \in BOOLEAN :
            ListSet(s[1], s[2], x, TRUE, veto)
    \/ \E s \in DetachListSlots : ListDelete(s[1], s[2], TRUE)
    \/ \E k \in ListIds, x \in Mappings : ListAppend(k, x, {})

SpecDetach == Init /\ [][NextDetach]_vars

\* An XYZ object saved and read, and its error listener: the messages the
\* service can return, the session ids and the callbacks.
Replies == {Message(id, ch) : id \in {"", "a"}, ch \in {"c1", "c2"}}

\* The threads a listener can have: the one in self._thread and one for
\* each listen() but the last.
Threads == 0..(MaxListens - 1)

NextXYZ ==
    \/ XYZId
    \/ \E session_id \in {"", "s"} : XYZUrl(session_id)
    \/ \E reply \in Replies, fails \in BOOLEAN : XYZSave(reply, fails)
    \/ \E c \in 1..2 : AddCallback(c)
    \/ life.listens = 0 /\ Listen(FALSE)
    \/ StreamYield(0)
    \/ \E how \in {"end", "rpc_error"} : StreamStops(0, how)
    \/ \E raised \in {"none", "Exception", "RpcError"} : Deliver(0, raised)
    \/ LoopEnd(0)

SpecXYZ == Init /\ [][NextXYZ]_vars

\* One XYZErrorListener whose client calls add_callback, listen and stop in
\* any order and number, with the threads the listen() calls started.
NextLife ==
    \/ \E c \in 1..2 : AddCallback(c)
    \/ \E raced \in BOOLEAN : Listen(raced)
    \/ Stop
    \/ \E timed_out \in BOOLEAN : StopReturns(timed_out)
    \/ \E t \in Threads : StreamYield(t)
    \/ \E t \in Threads, how \in {"end", "rpc_error"} : StreamStops(t, how)
    \/ \E t \in Threads, raised \in {"none", "Exception", "RpcError"} :
            Deliver(t, raised)
    \/ \E t \in Threads : LoopEnd(t)

SpecLife == Init /\ [][NextLife]_vars

\* Mapping instances put into a list held by two model objects, looked for
\* in it, taken out again and changed while they are items.
PropSlots == {<<O(1), "files">>, <<O(2), "files">>}

NextProp ==
    \/ NewMapping(D(1))
    \/ NewList(Mutable, <<>>)
    \/ \E s \in PropSlots, x \in Lists : ListSet(s[1], s[2], x, TRUE, FALSE)
    \/ \E k \in ListIds, x \in Mappings : ListAppend(k, x, {})
    \/ \E k \in ListIds, i \in {-1, 0} : ListPop(k, i, {})
    \/ \E k \in MapIds, v \in Vals : FieldSet(k, "href", v, {})
    \/ \E k \in ListIds, x \in Mappings \cup {D(1), Bad} : ListCount(k, x)
    \/ \E k \in ListIds, x \in Mappings \cup {D(1), Bad} : ListIndex(k, x)
    \/ \E k \in ListIds, x \in Mappings \cup {D(1), Bad} :
            ListContains(k, x)
    \/ \E k \in ListIds, xs \in {<<>>, <<D(1)>>, <<Bad>>}
                                \cup {<<x>> : x \in Mappings} :
            ListConcat(k, xs)
    \/ \E k \in ListIds, i \in {-1, 0} : ListGetItem(k, i)
    \/ \E k \in ListIds : ListLen(k)

SpecProp == Init /\ [][NextProp]_vars

\* A list value that is readonly or immutable, constructed with these flags
\* or built by the set of the immutable attribute `frozen` from a plain
\* list, then given to the list methods, and its items changed.
NextFrozen ==
    \/ NewMapping(D(1))
    \/ \E flags \in {Immutable, Readonly}, n \in 0..2 :
            NewList(flags, PlainItems(PlainList(n)))
    \/ \E x \in {PlainList(1), PlainList(2)} \cup Lists :
            ListSet(O(1), "frozen", x, TRUE, FALSE)
    \/ \E k \in ListIds, x \in ItemInputs : ListAppend(k, x, {})
    \/ \E k \in ListIds, i \in {-1, 0} : ListPop(k, i, {})
    \/ \E k \in ListIds : ListClear(k, {})
    \/ \E k \in ListIds, i \in {-1, 0}, x \in ItemInputs :
            ListSetItem(k, i, x, {})
    \/ \E k \in MapIds, v \in Vals, vetoers \in {{}, {O(1)}} :
            FieldSet(k, "href", v, vetoers)

SpecFrozen == Init /\ [][NextFrozen]_vars

\* The three kinds of __set__ on one model object, each on an immutable
\* attribute so that the policy check can fail.
NextSet ==
    \/ NewMapping(D(1))
    \/ NewList(Mutable, <<>>)
    \/ \E v \in Vals \cup {None}, validate \in BOOLEAN, veto \in BOOLEAN :
            AttrSet(O(1), "imm", v, validate, veto)
    \/ \E x \in MapInputs, validate \in BOOLEAN, veto \in BOOLEAN :
            MapSet(O(1), "fixed", x, validate, veto)
    \/ \E x \in {None, Bad, PlainList(0), PlainList(1)} \cup Lists,
          validate \in BOOLEAN, veto \in BOOLEAN :
            ListSet(O(1), "frozen", x, validate, veto)

SpecSet == Init /\ [][NextSet]_vars

\* A list held by two model objects, grown and reversed.
RevSlots == {<<O(1), "files">>, <<O(2), "files">>}

NextRev ==
    \/ \E d \in {D(1), D(2)} : NewMapping(d)
    \/ NewList(Mutable, <<>>)
    \/ \E s \in RevSlots, x \in Lists, veto \in BOOLEAN :
            ListSet(s[1], s[2], x, TRUE, veto)
    \/ \E k \in ListIds, x \in Mappings, vetoers \in SUBSET Owners :
            ListAppend(k, x, vetoers)
    \/ \E k \in ListIds, vetoers \in SUBSET Owners : ListReverse(k, vetoers)

SpecRev == Init /\ [][NextRev]_vars

\* ---------------------------------------------------------------- properties

IsAttrSet(op) == op.op = "set" /\ op.kind = "attr"

\* C1: Attribute.__set__ with validate on a readonly attribute always raises
\* AttributeValidationError, whether or not the owner holds a value for it;
\* the owner's _attributes are unchanged and its _set_modified is not invoked.
ReadonlySetRaises ==
    [][(IsAttrSet(last') /\ last'.validate /\ Schema[last'.f].readonly)
        => /\ result' = "AttributeValidationError"
           /\ calls' = <<>>
           /\ attrs' = attrs]_vars

\* A validated set of a readonly attribute that already holds a value (loaded
\* without validation) was rejected.
ReadonlySetWitness ==
    /\ IsAttrSet(last) /\ last.validate /\ Schema[last.f].readonly
    /\ result = "AttributeValidationError"
    /\ attrs[last.tgt][last.f] # Unset

\* C2: for an immutable attribute that already holds a value, a validated set
\* raises AttributeValidationError exactly when the new value differs from
\* the stored one in canonical form.
ImmutableSetRaisesIffDiffers ==
    [][(/\ IsAttrSet(last') /\ last'.validate
        /\ ~Schema[last'.f].mutable /\ ~Schema[last'.f].readonly
        /\ attrs[last'.tgt][last'.f] # Unset)
        => (result' = "AttributeValidationError"
              <=> Attribute_deserialize(last'.v, TRUE)
                    # attrs[last'.tgt][last'.f])]_vars

IsSet(op) == op.op = "set" /\ op.kind \in {"attr", "map", "listattr"}

\* == between the value an owner held before a __set__ and the value it
\* holds after it.
StoredEq(old, new) ==
    IF IsMapping(old) /\ IsMapping(new) THEN MappingEq(mattrs', old[2], new[2])
    ELSE IF IsList(old) /\ IsList(new)
         THEN SeqEq(mattrs', litems'[old[2]], litems'[new[2]])
         ELSE old = new

\* C3: in Attribute.__set__, MappingAttribute.__set__ and
\* ListAttribute.__set__ the owner's _set_modified is invoked once with
\* (name, changed, validate), and only when the policy check and the
\* deserialization have passed; when it raises, the owner's _attributes and
\* the owner registries of every mapping and list are as they were before the
\* call, and when it returns, changed was FALSE exactly when the owner held an
\* equal value.
SetNotifiesBeforeCommit ==
    [][IsSet(last') =>
        /\ result' \in {"AttributeValidationError", "ok", "CallbackError"}
        /\ result' = "AttributeValidationError"
            => calls' = <<>> /\ UNCHANGED <<attrs, mowners, lowners>>
        /\ result' # "AttributeValidationError"
            => /\ Len(calls') = 1
               /\ calls'[1].o = last'.tgt
               /\ calls'[1].name = last'.f
               /\ calls'[1].validate = last'.validate
               /\ calls'[1].raised = (result' = "CallbackError")
        /\ result' = "CallbackError"
            => UNCHANGED <<attrs, mowners, lowners>>
        /\ result' = "ok"
            => calls'[1].changed
                 = ~(/\ attrs[last'.tgt][last'.f] # Unset
                     /\ StoredEq(attrs[last'.tgt][last'.f],
                                 attrs'[last'.tgt][last'.f]))]_vars

\* The owner's callback vetoed the replacement of a stored mapping by another
\* mapping instance, and it vetoed the replacement of a stored list.
VetoedMappingSetWitness ==
    /\ IsSet(last) /\ last.kind = "map" /\ result = "CallbackError"
    /\ IsMapping(attrs[last.tgt][last.f])
    /\ IsMapping(last.v) /\ last.v # attrs[last.tgt][last.f]
    /\ RegHas(mowners[attrs[last.tgt][last.f][2]], last.tgt)
    /\ ~RegHas(mowners[last.v[2]], last.tgt)

\* C4: a mapping instance has the registry entry (o, f) exactly when model
\* object o stores that very instance under f.
HasEntry(k, o, f) == \E n \in 1..Len(mowners[k]) : mowners[k][n] = <<o, f>>

OwnerEntryIffHeld ==
    \A k \in 1..mcount : \A s \in MapSlots :
        HasEntry(k, s[1], s[2]) <=> attrs[s[1]][s[2]] = M(k)

IsFieldSet(op) == op.op = "set" /\ op.kind = "field"

Notified(cs, o, name) ==
    \E n \in 1..Len(cs) :
        cs[n].o = o /\ cs[n].name = name /\ cs[n].changed /\ ~cs[n].raised

\* C6: with one mapping instance stored in `field` of model object 1 and in
\* `field2` of model object 2, a successful set of one of its fields notifies
\* object 1 under `field` and object 2 under `field2` with changed = TRUE
\* when the value differs from the stored one, and sends no changed = TRUE
\* notice when it is equal.
SharedMappingNotifiesBoth ==
    [][\A k \in MapIds :
        (/\ IsFieldSet(last') /\ last'.tgt = M(k) /\ result' = "ok"
         /\ attrs[O(1)]["field"] = M(k) /\ attrs[O(2)]["field2"] = M(k))
        => IF mattrs[k][last'.f] = Attribute_deserialize(last'.v, TRUE)
           THEN \A n \in 1..Len(calls') : ~calls'[n].changed
           ELSE /\ Notified(calls', O(1), "field")
                /\ Notified(calls', O(2), "field2")]_vars

IsListCall(op) == op.kind = "list" /\ op.op # "new"

\* C5: every mapping instance present in the items of a list has that list
\* in its owners registry.
ItemsRegistered ==
    \A k \in 1..lcount : \A n \in 1..Len(litems[k]) :
        RegHas(mowners[litems[k][n][2]], L(k))

\* The item x given to append and the item r returned by pop are canonically
\* equal: an instance is kept as it is, a dict has become a File with the
\* dict's values.
CanonEq(ma, x, r) ==
    /\ IsMapping(r)
    /\ IF IsMapping(x) THEN r = x ELSE IsDict(x) /\ ma[r[2]] = FreshFile(x)

\* C7: a successful append to a mutable list makes it one item longer, and a
\* successful pop() that follows it returns an item canonically equal to the
\* appended one, makes the list one item shorter again, and leaves the list
\* out of the owners registry of the returned item.
AppendThenPop ==
    [][\A k \in ListIds :
        /\ (last' = ListOp("append", k, last'.v, 0) /\ result' = "ok")
            => /\ Len(litems'[k]) = Len(litems[k]) + 1
               /\ CanonEq(mattrs', last'.v, litems'[k][Len(litems'[k])])
        /\ (/\ last = ListOp("append", k, last.v, 0) /\ result = "ok"
            /\ last'.kind = "list" /\ last'.op = "pop" /\ last'.tgt = L(k)
            /\ last'.i = -1 /\ result' = "ok")
            => /\ Len(litems'[k]) = Len(litems[k]) - 1
               /\ CanonEq(mattrs', last.v, last'.v)
               /\ last'.v = litems[k][Len(litems[k])]
               /\ ~RegHas(mowners'[last'.v[2]], L(k))]_vars

\* pop() returned an item right after that item was appended to a list that
\* holds it a second time, and the list is no longer an owner of the item.
AppendThenPopWitness ==
    /\ last.kind = "list" /\ last.op = "pop" /\ last.f = "after-append"
    /\ last.i = -1 /\ result = "ok"
    /\ IsMapping(last.v)
    /\ Len(litems[last.tgt[2]]) > 0
    /\ ~RegHas(mowners[last.v[2]], last.tgt)

IsReverse(op) == op.kind = "list" /\ op.op = "reverse"

\* The items read backwards differ from the items in some position.
Differs(ma, items) ==
    \E n \in 1..Len(items) :
        ~ValueEq(ma, items[n], items[Len(items) + 1 - n])

IsReversed(old, new) ==
    /\ Len(new) = Len(old)
    /\ \A n \in 1..Len(old) : new[n] = old[Len(old) + 1 - n]

\* The owners of a list were each told `changed`, in order, and none raised.
EveryOwnerTold(cs, reg, changed) ==
    /\ Len(cs) = Len(reg)
    /\ \A n \in 1..Len(reg) :
        cs[n] = Call(reg[n][1], reg[n][2], changed, TRUE, FALSE)

\* C8 (as stated): a successful reverse of a list of 0 or 1 items reports
\* changed = FALSE; of a list of 2 or more items with two distinct elements it
\* reports changed = TRUE to every owner; the items are then the exact reverse.
ReverseOfDistinctReportsChange ==
    [][\A k \in ListIds :
        (IsReverse(last') /\ last'.tgt = L(k) /\ result' = "ok")
        => /\ IsReversed(litems[k], litems'[k])
           /\ Len(litems[k]) <= 1
                => EveryOwnerTold(calls', lowners[k], FALSE)
           /\ (/\ Len(litems[k]) >= 2
               /\ \E m, n \in 1..Len(litems[k]) :
                    ~ValueEq(mattrs, litems[k][m], litems[k][n]))
                => EveryOwnerTold(calls', lowners[k], TRUE)]_vars

\* C8 (amended): a successful reverse tells every owner changed = TRUE exactly
\* when the items read backwards differ from the items in some position, so
\* FALSE for 0 or 1 items and for a palindrome; the items are then the exact
\* reverse.
ReverseReportsChangeIffDiffers ==
    [][\A k \in ListIds :
        (IsReverse(last') /\ last'.tgt = L(k) /\ result' = "ok")
        => /\ IsReversed(litems[k], litems'[k])
           /\ EveryOwnerTold(calls', lowners[k], Differs(mattrs, litems[k]))
           /\ Len(litems[k]) <= 1 => ~Differs(mattrs, litems[k])]_vars

\* A list of three items with two distinct elements that reads the same
\* backwards was reversed, and its two owners were told changed = FALSE.
ReversePalindromeWitness ==
    /\ IsReverse(last) /\ result = "ok"
    /\ LET items == litems[last.tgt[2]]
       IN  /\ Len(items) = 3
           /\ ~ValueEq(mattrs, items[1], items[2])
           /\ ~Differs(mattrs, items)
    /\ Len(calls) = 2
    /\ \A n \in 1..2 : ~calls[n].changed

\* C9: a list method called on a list value that is readonly or immutable
\* raises AttributeValidationError, notifies no owner, creates and registers
\* no item and leaves the items as they were.
FrozenListRejects ==
    [][\A k \in ListIds :
        (/\ IsListCall(last') /\ last'.tgt = L(k)
         /\ (lflags[k].readonly \/ ~lflags[k].mutable))
        => /\ result' = "AttributeValidationError"
           /\ calls' = <<>>
           /\ UNCHANGED <<attrs, mapVars, listVars, xyzVars>>]_vars

\* A method was rejected on an immutable list that holds an item and has an
\* owner.
FrozenListWitness ==
    /\ IsListCall(last) /\ result = "AttributeValidationError"
    /\ ~lflags[last.tgt[2]].mutable
    /\ Len(litems[last.tgt[2]]) > 0
    /\ Len(lowners[last.tgt[2]]) > 0
    /\ calls = <<>>

\* C10: a list method that raises leaves the items of the list and the owners
\* registry of every mapping instance as they were before the call.
FailedListCallChangesNothing ==
    [][(IsListCall(last') /\ result' # "ok")
        => /\ litems' = litems
           /\ \A k \in 1..mcount : mowners'[k] = mowners[k]]_vars

IsRefGet(op) == op.op = "get" /\ op.kind = "ref"

IsRefSet(op) == op.op = "set" /\ op.kind = "ref"

\* C11: a read of a reference returns the cached object, without a lookup
\* and without a write, when an object is cached and its id is the owner's
\* shadow id; otherwise it looks up the shadow id when there is one and
\* returns None without a lookup when there is none, and caches what it
\* returns; so it never returns a cached object whose id is not the shadow
\* id.
ReadFetchesUnlessCacheMatches ==
    [][IsRefGet(last') =>
        LET o == last'.tgt
            f == last'.f
            cached == IF attrs[o][f] = Unset THEN None ELSE attrs[o][f]
            id == IF attrs[o][IdField(f)] = Unset THEN None
                  ELSE attrs[o][IdField(f)]
        IN  /\ result' = "ok"
            /\ IF IsObject(cached) /\ RefId(cached) = id
               THEN /\ last'.out = cached
                    /\ last'.lookup = None
                    /\ attrs' = attrs
               ELSE /\ last'.lookup = id
                    /\ last'.out \in {None} \cup
                         {x \in CatalogObjects : id # None /\ RefId(x) = id}
                    /\ id = None => last'.out = None
                    /\ attrs' = [attrs EXCEPT ![o][f] = last'.out]
                    /\ IsObject(cached) => last'.out # cached]_vars

\* A read found a cached object whose id was not the owner's shadow id,
\* looked the shadow id up and returned the object found.
StaleCacheReadWitness ==
    /\ IsRefGet(last) /\ result = "ok"
    /\ IsObject(last.v)
    /\ last.lookup # None /\ last.lookup # RefId(last.v)
    /\ IsObject(last.out) /\ RefId(last.out) = last.lookup
    /\ attrs[last.tgt][last.f] = last.out

\* C12: a successful set of a reference stores the value given and stores
\* its id (None for None) under the shadow id name, whatever the flags of
\* the shadow id attribute; a read that follows it returns the value given
\* without a lookup.
SetJamsShadowId ==
    [][/\ (IsRefSet(last') /\ result' = "ok")
            => /\ attrs'[last'.tgt][last'.f] = last'.v
               /\ attrs'[last'.tgt][IdField(last'.f)]
                    = IF last'.v = None THEN None ELSE RefId(last'.v)
       /\ (/\ IsRefSet(last) /\ result = "ok"
           /\ IsRefGet(last') /\ last'.tgt = last.tgt /\ last'.f = last.f)
            => /\ last'.out = last.v
               /\ last'.lookup = None]_vars

\* A reference was read right after a set that replaced the stored value of
\* its immutable shadow id attribute, and the object given was returned
\* without a lookup.
SetThenReadWitness ==
    /\ IsRefGet(last) /\ last.i = 2
    /\ ~Schema[IdField(last.f)].mutable
    /\ IsObject(last.out) /\ last.lookup = None
    /\ attrs[last.tgt][IdField(last.f)] = RefId(last.out)

\* C13: a validated set of a reference to a value that is not None and not
\* an instance of the reference class, or that is UNSAVED where unsaved
\* references are not allowed, raises AttributeValidationError, makes no
\* _set_modified call and leaves the owner's _attributes (reference and
\* shadow id) as they were.
BadReferenceRejected ==
    [][(/\ IsRefSet(last') /\ last'.validate /\ last'.v # None
        /\ \/ ~(IsObject(last'.v) /\ last'.v[2] # 4)
           \/ (last'.f = "ref" /\ last'.v = C(3)))
        => /\ result' = "AttributeValidationError"
           /\ calls' = <<>>
           /\ attrs' = attrs]_vars

\* An UNSAVED object was rejected by a reference that holds an object and
\* does not allow unsaved values.
UnsavedRejectedWitness ==
    /\ IsRefSet(last) /\ last.validate /\ last.f = "ref"
    /\ last.v = C(3)
    /\ result = "AttributeValidationError"
    /\ IsObject(attrs[last.tgt]["ref"])
    /\ attrs[last.tgt]["ref_id"] # Unset

\* C14: an unvalidated set of a reference to a value that is not None and
\* not an instance of the reference class raises no validation error and
\* stores the value.
UnvalidatedSetSkipsTypeCheck ==
    [][(/\ IsRefSet(last') /\ ~last'.validate /\ last'.v # None
        /\ ~(IsObject(last'.v) /\ last'.v[2] # 4))
        => /\ result' # "AttributeValidationError"
           /\ result' = "ok" => attrs'[last'.tgt][last'.f] = last'.v]_vars

\* A value of the enum: a member or the string value of a member.
InEnum(x) == x \in {E(1), E(2), V(1), V(2)}

\* C15: deserializing or setting an enum attribute raises
\* AttributeValidationError exactly when validate is set and the value is
\* not of the enum; without validate deserialize returns the value given; a
\* set that raised left the owner's _attributes as they were and made no
\* _set_modified call.
EnumRejectsWithValidationError ==
    [][(last'.kind = "enum") =>
        /\ (result' = "AttributeValidationError")
             <=> (last'.validate /\ ~InEnum(last'.v))
        /\ (last'.op = "deserialize" /\ ~last'.validate)
             => (result' = "ok" /\ last'.out = last'.v)
        /\ (last'.op = "set" /\ result' \notin {"ok", "CallbackError"})
             => (attrs' = attrs /\ calls' = <<>>)]_vars

IsTimestampDeserialize(op) == op.kind = "timestamp" /\ op.op = "deserialize"

\* A well formed timestamp string: YYYY-MM-DDTHH:MM:SS, an optional fraction,
\* and Z.
WellFormed(x) == IsString(x) /\ x[4] = "Z"

\* C16 (as stated): Timestamp.deserialize with validate rejects a malformed
\* string with AttributeValidationError and returns a naive datetime with
\* UTC attached; without validate it returns a naive datetime as it is.
TimestampValidatesWhenValidating ==
    [][IsTimestampDeserialize(last') =>
        LET v == last'.v
        IN  /\ (last'.validate /\ IsString(v) /\ ~WellFormed(v))
                => result' = "AttributeValidationError"
            /\ (last'.validate /\ IsDatetime(v) /\ v[4] = "naive")
                => (result' = "ok" /\ last'.out = Dt(v[2], v[3], "utc"))
            /\ (~last'.validate /\ IsDatetime(v) /\ v[4] = "naive")
                => (result' = "ok" /\ last'.out = v)]_vars

\* C16 (amended): Timestamp.deserialize returns None, and with validate any
\* value, as it is; without validate it attaches UTC to a naive datetime,
\* returns an aware one as it is, parses a well formed string to the UTC
\* datetime of its second with the fraction cut to microseconds, and rejects
\* a malformed string with AttributeValidationError.
TimestampParsesWhenNotValidating ==
    [][IsTimestampDeserialize(last') =>
        LET v == last'.v
        IN  /\ (last'.validate \/ v = None)
                => (result' = "ok" /\ last'.out = v)
            /\ (~last'.validate /\ IsDatetime(v))
                => (result' = "ok" /\ last'.out = Dt(v[2], v[3], "utc"))
            /\ (~last'.validate /\ WellFormed(v))
                => (result' = "ok"
                    /\ last'.out = Dt(v[2], v[3] \div 1000, "utc"))
            /\ (~last'.validate /\ IsString(v) /\ ~WellFormed(v))
                => result' = "AttributeValidationError"]_vars

\* With validate, a malformed string came back as it was given.
MalformedAcceptedWitness ==
    /\ IsTimestampDeserialize(last) /\ last.validate
    /\ IsString(last.v) /\ ~WellFormed(last.v)
    /\ result = "ok" /\ last.out = last.v

\* C17: for an attribute of every kind and every canonical value v of it,
\* deserialize(serialize(v)) returns a value equal to v, with and without
\* validate.
RoundTripReturnsEqual ==
    [][(last'.op = "roundtrip" /\ last'.v # None)
        => /\ result' = "ok"
           /\ KindEq(last'.tgt, last'.out, last'.v)]_vars

IsEquals(op) == op.op = "eq" /\ op.kind = "mapping"

\* The serialized form of the value an instance holds under a name: the
\* value itself, or for the boolean flag its truth value; an unset name
\* counts as None.
SerialForm(x, name) ==
    LET value == IF name \in DOMAIN x[4] THEN x[4][name] ELSE None
    IN  IF name = "flag" THEN Bool(value = PyTrue) ELSE value

\* C18: two mapping instances of the same class are equal exactly when the
\* serialized forms of their values agree for every serializable attribute
\* of the class, whatever their identities, their owners and the values of
\* the attribute that is not serializable.
EqualIffSerializedAgree ==
    [][(IsEquals(last') /\ last'.tgt[2] = last'.v[2])
        => (last'.out = PyTrue
              <=> \A name \in ClassFields(last'.tgt[2]) \ {"note"} :
                    SerialForm(last'.tgt, name) = SerialForm(last'.v, name))]_vars

\* Two instances of one class with different identities, owners and notes,
\* one with the flag unset and one with the flag False, compared equal.
EqualDespiteIdentityWitness ==
    /\ IsEquals(last) /\ last.out = PyTrue
    /\ last.tgt[2] = "MyMapping" /\ last.v[2] = "MyMapping"
    /\ last.tgt[3] # last.v[3] /\ last.tgt[5] # last.v[5]
    /\ "note" \in DOMAIN last.tgt[4] /\ "note" \notin DOMAIN last.v[4]
    /\ "flag" \notin DOMAIN last.tgt[4]
    /\ "flag" \in DOMAIN last.v[4] /\ last.v[4]["flag"] = PyFalse

\* C19: two mapping instances whose classes differ are not equal, in either
\* order, also when one class is a subclass of the other and every
\* serializable attribute agrees.
DifferentClassesNeverEqual ==
    [][(IsEquals(last') /\ last'.tgt[2] # last'.v[2])
        => last'.out = PyFalse]_vars

\* An instance of a class and an instance of its subclass holding the same
\* attributes compared unequal in both orders.
SubclassUnequalWitness ==
    /\ IsEquals(last) /\ last.out = PyFalse
    /\ {last.tgt[2], last.v[2]} = {"MyMapping", "SubMapping"}
    /\ last.tgt[4] = last.v[4]
    /\ "foo" \in DOMAIN last.tgt[4]
    /\ ~PyEq(last.v, last.tgt)

\* C20: MappingAttribute.deserialize of class T returns None for None, the
\* instance itself for an instance of T, a new instance of T built as
\* T(**values) for a plain dict of attributes of T, and raises
\* AttributeValidationError for every other value, an instance of another
\* mapping class included.
DeserializeAcceptsOnlyOwnClass ==
    [][(last'.op = "deserialize" /\ last'.kind = "mapping") =>
        LET T == last'.tgt[2]
            x == last'.v
        IN  IF x = None THEN result' = "ok" /\ last'.out = None
            ELSE IF IsInst(x) /\ x[2] = T
                 THEN result' = "ok" /\ last'.out = x
            ELSE IF IsPlainDict(x)
                 THEN (DOMAIN x[2] \subseteq ClassFields(T))
                        => /\ result' = "ok"
                           /\ IsInst(last'.out) /\ last'.out[2] = T
                           /\ last'.out[3] # 1
                           /\ last'.out
                                = Mapping_init(T, 0, x[2], last'.validate).val
            ELSE result' = "AttributeValidationError"]_vars

IsMappingSerialize(op) == op.op = "serialize" /\ op.kind = "mapping"

\* C21: MappingAttribute.serialize of a dict or of an instance whose names
\* are attributes of the class returns a dict whose keys are exactly the
\* names given (stored) whose attribute is serializable, each with the
\* serialized form of its value: the value itself, or the truth value for
\* the boolean attribute; the attribute that is not serializable never
\* appears. None gives None.
SerializeKeepsSerializableOnly ==
    [][IsMappingSerialize(last') =>
        LET x == last'.v
            data == IF x[1] = "inst" THEN x[4] ELSE x[2]
        IN  IF x = None THEN result' = "ok" /\ last'.out = None
            ELSE (DOMAIN data \subseteq ClassFields(last'.tgt[2]))
                 => /\ result' = "ok"
                    /\ last'.out[1] = "dict"
                    /\ DOMAIN last'.out[2] = DOMAIN data \ {"note"}
                    /\ \A name \in DOMAIN last'.out[2] :
                         last'.out[2][name]
                            = IF name = "flag" THEN Bool(data[name] = PyTrue)
                              ELSE data[name]]_vars

\* An instance holding a value for the attribute that is not serializable
\* and for two that are was serialized to a dict of the two.
SerializeDropsNoteWitness ==
    /\ IsMappingSerialize(last) /\ result = "ok"
    /\ last.v[1] = "inst"
    /\ DOMAIN last.v[4] = {"foo", "flag", "note"}
    /\ last.out[1] = "dict" /\ DOMAIN last.out[2] = {"foo", "flag"}

IsClassNew(op) == op.op = "new" /\ op.kind = "class"

\* The values a dict in insertion order holds under a name.
Under(d, name) == {d[n][2] : n \in {m \in 1..Len(d) : d[m][1] = name}}

\* The bases, in the order listed, that have a schema with the name in it.
HavingName(bases, name) ==
    {n \in 1..Len(bases) : bases[n].meta /\ Under(bases[n].types, name) # {}}

\* C22: the schema of a class built by AttributeMeta holds under each name
\* the Attribute declared under it in the body of the class, or else the
\* entry of the first base listed whose schema has the name, and nothing
\* under any other name; ATTRIBUTES lists the names of the schema, each
\* once; the schema is the same with and without _no_inherit.
SchemaFirstDeclaredWins ==
    [][IsClassNew(last') =>
        LET body == last'.v
            bases == last'.tgt
            cls == last'.out
        IN  /\ \A name \in {"x", "y"} :
                 Under(cls.types, name) =
                    IF \E m \in Under(body, name) : m[1] \in {"attr", "refattr"}
                    THEN Under(body, name)
                    ELSE IF HavingName(bases, name) # {}
                    THEN Under(bases[CHOOSE n \in HavingName(bases, name) :
                                \A m \in HavingName(bases, name) : n <= m]
                                    .types, name)
                    ELSE {}
            /\ \A n \in 1..Len(cls.types) : cls.types[n][1] \in {"x", "y"}
            /\ Len(cls.ATTRIBUTES) = Len(cls.types)
            /\ \A n \in 1..Len(cls.types) : cls.ATTRIBUTES[n] = cls.types[n][1]
            /\ \A m, n \in 1..Len(cls.types) :
                 cls.types[m][1] = cls.types[n][1] => m = n
            /\ cls.types = Meta_new(body, bases, last'.i = 0).types]_vars

\* A class with _no_inherit that declares x itself above two bases that
\* both have x, and takes y from the second base because the first has
\* none.
SchemaWitness ==
    /\ IsClassNew(last) /\ last.i = 1
    /\ Len(last.tgt) = 2
    /\ Under(last.v, "x") = {Attr(0, "x")} /\ Under(last.v, "y") = {}
    /\ Under(last.tgt[1].types, "x") # {} /\ Under(last.tgt[2].types, "x") # {}
    /\ Under(last.tgt[1].types, "y") = {}
    /\ Under(last.out.types, "x") = {Attr(0, "x")}
    /\ Under(last.out.types, "y") = Under(last.tgt[2].types, "y")
    /\ Under(last.out.types, "y") # {}

\* C23: in a class built by AttributeMeta every name of
\* _reference_attribute_types is a name of _attribute_types, holds the same
\* object there, and that object is a CatalogObjectReference; and every
\* CatalogObjectReference of _attribute_types is in
\* _reference_attribute_types.
ReferencesAreSubsetOfSchema ==
    [][IsClassNew(last') =>
        LET cls == last'.out
        IN  /\ \A n \in 1..Len(cls.references) :
                 /\ Under(cls.types, cls.references[n][1])
                        = {cls.references[n][2]}
                 /\ cls.references[n][2][1] = "refattr"
            /\ \A n \in 1..Len(cls.types) :
                 cls.types[n][2][1] = "refattr"
                    => \E m \in 1..Len(cls.references) :
                            cls.references[m] = cls.types[n]]_vars

\* Model object o holds the value x under one of its attributes.
HoldsValue(o, x) == \E f \in MapFields \cup ListFields : attrs[o][f] = x

\* Model object o holds the mapping instance x, or holds a list that has x
\* among its items.
HoldsOrContains(o, x) ==
    \/ HoldsValue(o, x)
    \/ \E j \in 1..lcount :
        /\ HoldsValue(o, L(j))
        /\ \E n \in 1..Len(litems[j]) : litems[j][n] = x

EveryChangeNotifiesOwner ==
    [][\A o \in Owners : \A f \in Fields :
        attrs'[o][f] # attrs[o][f]
            => \E n \in 1..Len(calls') :
                /\ calls'[n].o = o /\ calls'[n].name = f
                /\ ~calls'[n].raised]_vars

IsParse(op) == op.op = "parse" /\ op.kind = "timestamp"

\* C26: parse_iso_datetime of a well formed string ending in Z whose
\* fraction has 7 to 9 digits returns the UTC datetime of its second with
\* the microseconds the first six digits spell, the dropped digits playing
\* no part: the same datetime as for the string with the fraction cut to
\* those six digits.
ParseTruncatesFraction ==
    [][(IsParse(last') /\ last'.v[4] = "Z" /\ last'.v[5] \in 7..9)
        => /\ result' = "ok"
           /\ last'.out = <<"dt", last'.v[2], last'.v[3] \div 1000, "utc">>
           /\ last'.out
                = parse_iso_datetime(
                    <<"s", last'.v[2], (last'.v[3] \div 1000) * 1000, "Z", 6>>)
                   .val]_vars

\* A fraction of nine digits whose dropped digits are 999 was parsed to the
\* microsecond below.
ParseTruncatesWitness ==
    /\ IsParse(last) /\ result = "ok"
    /\ last.v[4] = "Z" /\ last.v[5] = 9 /\ last.v[3] % 1000 = 999
    /\ last.out[3] * 1000 + 999 = last.v[3]

IsXYZ(op, name) == op.kind = "xyz" /\ op.op = name

\* C27: xyz.id is None exactly when the id of the message is empty, and is
\* that id otherwise; url() raises ValueError exactly when the id is empty
\* and otherwise returns a template with the channel and the id of the
\* message; a save that returns makes the message returned by the service
\* the message of the object, so that a url() after it is built from the id
\* and the channel the service gave.
PersistedIffMessageHasId ==
    [][/\ IsXYZ(last', "id")
            => last'.out = IF xyz.id = "" THEN <<"none", 0>>
                           ELSE <<"str", xyz.id>>
       /\ IsXYZ(last', "url")
            => IF xyz.id = "" THEN result' = "ValueError"
               ELSE /\ result' = "ok"
                    /\ last'.out[1] = "url"
                    /\ last'.out[2] = xyz.channel
                    /\ last'.out[3] = xyz.id
       /\ (IsXYZ(last', "save") /\ result' = "ok")
            => /\ xyz'.id = last'.v[2]
               /\ xyz'.channel = last'.v[3]
       /\ (IsXYZ(last', "save") /\ result' # "ok") => xyz' = xyz
       /\ (/\ IsXYZ(last, "save") /\ result = "ok" /\ last.v[2] # ""
           /\ IsXYZ(last', "url"))
            => /\ result' = "ok"
               /\ last'.out[2] = last.v[3]
               /\ last'.out[3] = last.v[2]]_vars

\* url() was called right after a save to which the service answered with
\* an id and with another channel than the one the object was built with,
\* and returned a template with both.
SavedUrlWitness ==
    /\ IsXYZ(last, "url") /\ last.i = 1 /\ result = "ok"
    /\ last.out[2] = "c2" /\ last.out[3] = "a"
    /\ xyz = Message("a", "c2")

\* The log of the calls made so far is in order: the callbacks of one
\* message one after the other from the first on, then the next message;
\* each entry is the callback registered at that place.
InOrder(l) ==
    /\ \A n \in 1..Len(l.log) :
        /\ l.log[n][1] \in 1..l.sent
        /\ l.log[n][2] \in 1..Len(l.callbacks)
        /\ l.log[n][3] = l.callbacks[l.log[n][2]]
    /\ Len(l.log) > 0 => l.log[1][2] = 1
    /\ \A n \in 1..(Len(l.log) - 1) :
        \/ l.log[n + 1][1] = l.log[n][1] /\ l.log[n + 1][2] = l.log[n][2] + 1
        \/ l.log[n + 1][1] > l.log[n][1] /\ l.log[n + 1][2] = 1

\* C28: once listen() has started the thread (listen() being called once on
\* the listener), each message of the stream is
\* passed to the callbacks in the order they were registered, one message
\* after the other, and the thread takes the next message only when every
\* callback registered has been passed the current one; after a callback
\* raised, no callback is called again; when the stream raises
\* grpc.RpcError the thread ends without raising and calls nothing more.
ListenerDeliversInOrder ==
    [][life'.listens <= 1 =>
       /\ InOrder(listener')
       /\ (listener.thread = "delivering" /\ listener'.thread = "waiting")
            => \A i \in 1..Len(listener.callbacks) :
                 \E n \in 1..Len(listener.log) :
                    listener.log[n]
                        = <<listener.msg, i, listener.callbacks[i]>>
       /\ (last'.kind = "listener" /\ last'.op = "yield")
            => /\ listener'.msg = listener.sent + 1
               /\ listener'.sent = listener.sent + 1
       /\ (last'.kind = "listener" /\ last'.op = "callback")
            => /\ listener'.log = Append(listener.log,
                    <<listener.msg, listener.idx,
                      listener.callbacks[listener.idx]>>)
       /\ (last.kind = "listener" /\ last.op = "callback"
             /\ last.f # "none")
            => listener'.log = listener.log
       /\ (last'.kind = "listener" /\ last'.op = "rpc_error")
            => /\ result' = "ok"
               /\ listener'.thread = "done"
               /\ listener'.log = listener.log
       /\ listener.thread \in {"done", "failed"}
            => /\ listener'.log = listener.log
               /\ listener'.thread = listener.thread]_vars

\* The first of two callbacks raised on the second message: the second
\* callback was passed the first message only, and the thread is over.
CallbackErrorEndsListenerWitness ==
    /\ life.listens = 1
    /\ listener.thread = "failed"
    /\ Len(listener.callbacks) = 2
    /\ listener.sent = 2
    /\ Len(listener.log) = 3
    /\ listener.log[3][1] = 2 /\ listener.log[3][2] = 1

\* The list methods that change the items in place.
ListMutators ==
    {"append", "clear", "delitem", "delslice", "extend", "iadd", "imul",
     "insert", "pop", "remove", "reverse", "setitem", "setslice", "sort"}

\* C29: a list method that changes the items in place and returns tells the
\* owners changed = TRUE exactly when the items after it differ, element by
\* element in order, from the items before it; so an extend or += with
\* nothing, a *= 1, a clear of an empty list, a sort of a sorted list and a
\* slice assignment of equal items all tell changed = FALSE.
ChangedIffItemsDiffer ==
    [][\A k \in ListIds :
        (/\ last'.kind = "list" /\ last'.op \in ListMutators
         /\ last'.tgt = L(k) /\ result' = "ok")
        => \A n \in 1..Len(calls') :
              calls'[n].changed = ~SeqEq(mattrs', litems[k], litems'[k])]_vars

\* The list methods that take items out of the list.
ListRemovers ==
    {"clear", "delitem", "delslice", "imul", "pop", "remove", "setitem",
     "setslice"}

\* C30: after a list method that takes mapping instances out of the list
\* has returned, no instance that was an item before and is none after has
\* the list in its registry.
RemovedItemsDeregistered ==
    [][\A k \in ListIds :
        (/\ last'.kind = "list" /\ last'.op \in ListRemovers
         /\ last'.tgt = L(k) /\ result' = "ok")
        => \A n \in 1..Len(litems[k]) :
              LET item == litems[k][n]
              IN  (\A m \in 1..Len(litems'[k]) : litems'[k][m] # item)
                    => ~RegHas(mowners'[item[2]], L(k))]_vars

\* C31: when a field of a mapping instance changes to a different value while
\* the instance is an item of a list that a model object holds under an
\* attribute, the _set_modified of that model object is invoked with the
\* name of the attribute and changed = TRUE.
ItemChangeReachesListOwner ==
    [][\A k \in MapIds : \A j \in ListIds : \A o \in Owners :
       \A f \in ListFields :
        (/\ IsFieldSet(last') /\ last'.tgt = M(k)
         /\ mattrs'[k] # mattrs[k]
         /\ \E n \in 1..Len(litems[j]) : litems[j][n] = M(k)
         /\ attrs[o][f] = L(j))
        => \E n \in 1..Len(calls') :
              calls'[n] = Call(o, f, TRUE, TRUE, FALSE)]_vars

\* C32: when the owner's _set_modified raises during the set of a reference,
\* for the name of the reference or for the name of its shadow id, the owner
\* stores what it stored before under both names.
VetoedRefSetChangesNothing ==
    [][(IsRefSet(last') /\ result' = "CallbackError")
        => /\ attrs'[last'.tgt][last'.f] = attrs[last'.tgt][last'.f]
           /\ attrs'[last'.tgt][IdField(last'.f)]
                = attrs[last'.tgt][IdField(last'.f)]]_vars

\* C37: of two reads of a reference that follow each other with no call in
\* between, at most one looks the shadow id up, also when the first one
\* looked it up and found no object.
SecondReadLooksNothingUp ==
    [][(/\ IsRefGet(last) /\ IsRefGet(last')
        /\ last'.tgt = last.tgt /\ last'.f = last.f
        /\ last.lookup # <<"none", 0>>)
        => last'.lookup = <<"none", 0>>]_vars

\* C38: in the set of a reference of an owner that stores a shadow id, the
\* _set_modified call for the shadow id name carries changed = TRUE exactly
\* when the set replaces the stored shadow id by another value (the sets of
\* one catalog object over another, whose comparison is up to their class,
\* are left aside).
ShadowIdChangedIffReplaced ==
    [][(/\ IsRefSet(last') /\ result' = "ok"
        /\ attrs[last'.tgt][IdField(last'.f)] # Unset
        /\ ~(/\ IsObject(attrs[last'.tgt][last'.f]) /\ IsObject(last'.v)
             /\ attrs[last'.tgt][last'.f] # last'.v))
        => LET o == last'.tgt
               idf == IdField(last'.f)
           IN  /\ Len(calls') = 2
               /\ calls'[2].name = idf
               /\ calls'[2].changed = (attrs'[o][idf] # attrs[o][idf])]_vars

\* C33: when the _set_modified of a model object raises during the change
\* of a mapping instance or of a list that several model objects hold, the
\* instance and the list are as they were, and no _set_modified call of the
\* change that carried changed = TRUE has returned: no model object has
\* taken note of a modification.
VetoedChangeReachesNoOwner ==
    [][((IsFieldSet(last') \/ IsListCall(last'))
            /\ result' = "CallbackError")
        => /\ mattrs' = mattrs
           /\ litems' = litems
           /\ \A n \in 1..Len(calls') :
                calls'[n].changed => calls'[n].raised]_vars

\* C35: a successful change of a mapping instance that one model object
\* stores under two attributes notifies that model object under each of the
\* two names; and when the model object has just deleted one of the two
\* attributes, the change still notifies it under the name that is left.
SameOwnerNotifiedUnderEachName ==
    [][\A k \in MapIds : \A o \in Owners : \A f \in MapFields :
        (/\ IsFieldSet(last') /\ last'.tgt = M(k) /\ result' = "ok"
         /\ mattrs'[k] # mattrs[k]
         /\ attrs[o][f] = M(k)
         /\ \/ \E g \in MapFields \ {f} : attrs[o][g] = M(k)
            \/ /\ last.op = "delete" /\ last.kind = "map" /\ result = "ok"
               /\ last.tgt = o /\ last.out = M(k))
        => Notified(calls', o, f)]_vars

\* The list methods that return a value and are meant to change nothing.
ListReaders == {"count", "index", "contains", "add", "getitem", "len"}

\* C34: count, index, `in`, len, an index read and + leave the items of the
\* list, the registry of the list and the registry of every mapping
\* instance as they were, and invoke no _set_modified.
ListReadsArePure ==
    [][(last'.kind = "listread" /\ last'.op \in ListReaders)
        => /\ litems' = litems
           /\ lowners' = lowners
           /\ mowners' = mowners
           /\ calls' = <<>>]_vars

\* C36: once a list value that is readonly or immutable exists, no list
\* method called on it and no set of a field of one of its items changes
\* what the list serializes to.
FrozenListSerializesTheSame ==
    [][\A k \in 1..lcount :
        (/\ lflags[k].readonly \/ ~lflags[k].mutable
         /\ IsListCall(last') \/ IsFieldSet(last'))
        => SerializedItems(mattrs', litems'[k])
                = SerializedItems(mattrs, litems[k])]_vars

\* C39: for every sequence of listen() and stop() calls on one
\* XYZErrorListener, listen() being called more than once before stop()
\* included, once stop() has returned True every thread the listener started
\* is over, none is still reading a stream, and no callback is called any
\* more.
StopEndsEveryThread ==
    [][life'.stop = "true" =>
       /\ listener'.thread \in Dead
       /\ \A t \in 1..Len(life'.stale) : life'.stale[t].thread \in Dead
       /\ (life.stop = "true" => listener'.log = listener.log)]_vars

====
